---- MODULE Spec2Model ----
(***************************************************************************)
(* Timer / session manager and report generator of the timesheet           *)
(* application.                                                            *)
(*                                                                         *)
(* Time is the JavaScript epoch clock in milliseconds.  A stored timestamp *)
(* is an ISO-8601 string; it is modelled by its two components, the        *)
(* calendar date and the millisecond of that day, so that formatting and   *)
(* parsing are real conversions.  An optional value (T | undefined) is a   *)
(* sequence of length 0 or 1.                                              *)
(***************************************************************************)
EXTENDS Integers, Sequences, FiniteSets, TLC

VARIABLES
    store,      \* localStorage["timeflow_time_entries"]: the JSON list of entries
    now,        \* the wall clock, ms
    nextId,     \* source of fresh entry ids (generateId)
    result,     \* what the last storage-manager call returned to its caller
    observed,   \* last value getCurrentDuration gave for a running entry
    report,     \* the Report value last returned by the ReportGenerator
    streak,     \* what calculateStreak last returned
    heatmap,    \* what generateHeatmapData last returned
    timezone,   \* local time minus UTC, ms (the browser's time zone)
    projects,   \* localStorage["timeflow_projects"]
    tasks,      \* localStorage["timeflow_tasks"]
    goals,      \* localStorage["timeflow_goals"]
    progress,   \* what GoalTracker / getGoalProgress last computed for a goal
    taskEntries, \* TaskDetailPage: the entries of the task as last loaded
    selectedEntry, \* TaskDetailPage: the entry picked for a new activity
    hooks,      \* per mounted useTimer instance: runningEntry, currentDuration
    pomodoro,   \* PomodoroTimer: the component's state
    sessions,   \* localStorage["timeflow_pomodoro_sessions"]
    reminders,  \* the remote reminders table
    reminderCache, \* ReminderStorageManager: cache and lastFetch
    checks,     \* per run of checkReminders: where it stands, what is left
    marked,     \* the reminders notified and passed to markAsNotified so far
    db,         \* the remote time_entries table, rows in insertion order
    cache,      \* per client: TimeEntryStorageManager.cache
    lastFetch,  \* per client: TimeEntryStorageManager.lastFetch
    pc,         \* per client: the await at which its call in flight stands
    call,       \* per client: the locals of its call in flight
    last        \* per client: what its last completed call saw and returned

remoteVars == <<db, cache, lastFetch, pc, call, last>>
calendarVars == <<streak, heatmap, timezone>>
catalogVars == <<projects, tasks>>
goalVars == <<goals, progress>>
activityVars == <<taskEntries, selectedEntry>>
hookVars == <<hooks>>
pomodoroVars == <<pomodoro, sessions>>
reminderVars == <<reminders, reminderCache, checks, marked>>
pageVars == <<goalVars, activityVars, hookVars, pomodoroVars, reminderVars>>
besideGoalVars == <<activityVars, hookVars, pomodoroVars, reminderVars>>
besideActivityVars == <<goalVars, hookVars, pomodoroVars, reminderVars>>
besideHookVars == <<goalVars, activityVars, pomodoroVars, reminderVars>>
besidePomodoroVars == <<goalVars, activityVars, hookVars, reminderVars>>
besideReminderVars == <<goalVars, activityVars, hookVars, pomodoroVars>>
vars == <<store, now, nextId, result, observed, report, calendarVars,
          catalogVars, pageVars, remoteVars>>

----------------------------------------------------------------------------
(* Bounds of the model *)
MaxEntries == 3
MaxFallibleEntries == 2
MaxNow == 1500
TickMs == 500

(* Program constants *)
MsPerSecond == 1000
MsPerDay == 86400000

Projects == {"p1", "p2"}
TimerTags == {<<>>}

----------------------------------------------------------------------------
(* Date.prototype.toISOString / new Date(string).getTime() *)
toISOString(t) == [date |-> t \div MsPerDay, ms |-> t % MsPerDay]
getTime(iso) == iso.date * MsPerDay + iso.ms

(* Date methods that read or set local time.  The zone has a fixed offset
   (no daylight saving), so a local day has MsPerDay milliseconds. *)
MsPerHour == MsPerDay \div 24
TimeZones == {-3 * MsPerHour, 0, 2 * MsPerHour}

(* date.setHours(h, m, s, ms): same local calendar day, given time of day *)
setHours(date, h, m, s, ms) ==
    LET local == date + timezone
    IN (local - (local % MsPerDay)) - timezone
          + ((h * 60 + m) * 60 + s) * MsPerSecond + ms

(* date.setDate(date.getDate() + days) *)
addDays(date, days) == date + days * MsPerDay

(* date.getDay(): 0 is Sunday; 1 January 1970 was a Thursday *)
getDay(date) == (((date + timezone) \div MsPerDay) + 4) % 7

(* date.toISOString().split('T')[0]: the calendar date in UTC *)
dateString(date) == toISOString(date).date

(* endTime?: string -- the field is absent on a running entry *)
undefinedTime == [date |-> -1, ms |-> 0]

----------------------------------------------------------------------------
(* JSON.stringify leaves out a property whose value is undefined;
   JSON.parse gives an object on which that property reads as undefined *)
stringify(entry) ==
    [f \in {g \in DOMAIN entry : g # "endTime" \/ entry.endTime # undefinedTime}
        |-> entry[f]]

parse(object) ==
    [f \in DOMAIN object \cup {"endTime"} |->
        IF f \in DOMAIN object THEN object[f] ELSE undefinedTime]

(* BaseStorageManager: every call reads the whole list and writes it back *)
getAll(s) == [i \in 1..Len(s) |-> parse(s[i])]

(* saveAll swallows a failing setItem: the stored text is then unchanged *)
saveAll(s, items, writeOk) ==
    IF writeOk THEN [i \in 1..Len(items) |-> stringify(items[i])] ELSE s

findIndex(items, id) ==
    IF \E i \in 1..Len(items) : items[i].id = id
    THEN CHOOSE i \in 1..Len(items) :
            /\ items[i].id = id
            /\ \A j \in 1..(i - 1) : items[j].id # id
    ELSE 0

getById(s, id) ==
    LET items == getAll(s)
        index == findIndex(items, id)
    IN IF index = 0 THEN <<>> ELSE <<items[index]>>

create(s, item, writeOk) ==
    LET items == Append(getAll(s), item)
    IN [store |-> saveAll(s, items, writeOk), ret |-> <<item>>]

(* { ...items[index], ...updates } *)
merge(item, updates) ==
    [f \in DOMAIN item \cup DOMAIN updates |->
        IF f \in DOMAIN updates THEN updates[f] ELSE item[f]]

(* variant: the flag is written on its own and always lands, the remaining
   fields go in a second write that may fail *)
updateInTwoWrites(s, id, updates, writeOk) ==
    LET items == getAll(s)
        index == findIndex(items, id)
    IN IF index = 0
       THEN [store |-> s, ret |-> <<>>]
       ELSE LET flagged == [items EXCEPT ![index].isRunning = updates.isRunning]
                items2 == [items EXCEPT ![index] = merge(items[index], updates)]
            IN [store |-> saveAll(flagged, items2, writeOk),
                ret |-> <<items2[index]>>]

update(s, id, updates, writeOk) ==
    LET items == getAll(s)
        index == findIndex(items, id)
    IN IF index = 0
       THEN [store |-> s, ret |-> <<>>]
       ELSE LET items2 == [items EXCEPT ![index] = merge(items[index], updates)]
            IN [store |-> saveAll(s, items2, writeOk), ret |-> <<items2[index]>>]

(* items.filter(item => item.id !== id) *)
withoutId(items, id) == SelectSeq(items, LAMBDA item : item.id # id)

delete(s, id, writeOk) ==
    LET items == getAll(s)
        filtered == withoutId(items, id)
    IN IF Len(filtered) = Len(items)
       THEN [store |-> s, ret |-> FALSE]
       ELSE [store |-> saveAll(s, filtered, writeOk), ret |-> TRUE]

----------------------------------------------------------------------------
(* TimeEntryStorageManager (localStorage) *)
getRunningEntry(s) ==
    LET items == getAll(s)
    IN IF \E i \in 1..Len(items) : items[i].isRunning
       THEN <<items[CHOOSE i \in 1..Len(items) :
                        /\ items[i].isRunning
                        /\ \A j \in 1..(i - 1) : ~items[j].isRunning]>>
       ELSE <<>>

(* variant: the division by 1000 forgotten, duration kept in milliseconds *)
stopTimerMillis(s, id, t, writeOk) ==
    LET entry == getById(s, id)
    IN IF entry = <<>> \/ ~entry[1].isRunning
       THEN [store |-> s, ret |-> <<>>]
       ELSE LET endTime == toISOString(t)
                duration == getTime(endTime) - getTime(entry[1].startTime)
            IN update(s, id,
                      [endTime |-> endTime, duration |-> duration,
                       isRunning |-> FALSE, updatedAt |-> toISOString(t)],
                      writeOk)

(* variant: the isRunning guard forgotten, a stopped entry is stopped again *)
stopTimerUnguarded(s, id, t, writeOk) ==
    LET entry == getById(s, id)
    IN IF entry = <<>>
       THEN [store |-> s, ret |-> <<>>]
       ELSE LET endTime == toISOString(t)
                duration == (getTime(endTime) - getTime(entry[1].startTime))
                                \div MsPerSecond
            IN update(s, id,
                      [endTime |-> endTime, duration |-> duration,
                       isRunning |-> FALSE, updatedAt |-> toISOString(t)],
                      writeOk)

stopTimer(s, id, t, writeOk) ==
    LET entry == getById(s, id)
    IN IF entry = <<>> \/ ~entry[1].isRunning
       THEN [store |-> s, ret |-> <<>>]
       ELSE LET endTime == toISOString(t)
                duration == (getTime(endTime) - getTime(entry[1].startTime))
                                \div MsPerSecond
            IN update(s, id,
                      [endTime |-> endTime, duration |-> duration,
                       isRunning |-> FALSE, updatedAt |-> toISOString(t)],
                      writeOk)

(* variant: the running entry is looked up but never stopped *)
stopAllTimersSkipped(s, t, writeOk) == s

stopAllTimers(s, t, writeOk) ==
    LET runningEntry == getRunningEntry(s)
    IN IF runningEntry # <<>>
       THEN stopTimer(s, runningEntry[1].id, t, writeOk).store
       ELSE s

(* variant: the new entry is created before the running one is stopped, so
   stopAllTimers finds and stops whichever running entry comes first *)
startTimerCreateFirst(s, id, projectId, tags, t, stopOk, createOk) ==
    LET entry == [id |-> id, projectId |-> projectId,
                  startTime |-> toISOString(t), endTime |-> undefinedTime,
                  duration |-> 0, tags |-> tags,
                  updatedAt |-> toISOString(t), isRunning |-> TRUE]
        created == create(s, entry, createOk)
    IN [store |-> stopAllTimers(created.store, t, stopOk), ret |-> created.ret]

startTimer(s, id, projectId, tags, t, stopOk, createOk) ==
    LET stopped == stopAllTimers(s, t, stopOk)
        entry == [id |-> id, projectId |-> projectId,
                  startTime |-> toISOString(t), endTime |-> undefinedTime,
                  duration |-> 0, tags |-> tags,
                  updatedAt |-> toISOString(t), isRunning |-> TRUE]
    IN create(stopped, entry, createOk)

(* variant: the operands of the subtraction swapped *)
getCurrentDurationSwapped(entry, t) ==
    IF ~entry.isRunning THEN entry.duration
    ELSE (getTime(entry.startTime) - t) \div MsPerSecond

getCurrentDuration(entry, t) ==
    IF ~entry.isRunning THEN entry.duration
    ELSE (t - getTime(entry.startTime)) \div MsPerSecond

----------------------------------------------------------------------------
(* SupabaseService: one statement against the time_entries table per call.
   A failing call (error in the response, no signed-in user) is logged and
   answered with [] or null. *)

(* rows by start_time, newest first; rows with equal start_time stay in
   insertion order.  The manager's own sort on startTime keeps that order. *)
RECURSIVE insertByStart(_, _)
insertByStart(sorted, item) ==
    IF sorted = <<>> THEN <<item>>
    ELSE IF getTime(item.start_time) > getTime(Head(sorted).start_time)
         THEN <<item>> \o sorted
         ELSE <<Head(sorted)>> \o insertByStart(Tail(sorted), item)

RECURSIVE sortByStart(_)
sortByStart(rows) ==
    IF rows = <<>> THEN <<>>
    ELSE insertByStart(sortByStart(SubSeq(rows, 1, Len(rows) - 1)),
                       rows[Len(rows)])

(* a row of time_entries for an entry, as createTimeEntry inserts it;
   created_at and updated_at are left to the table defaults *)
toRow(entry, t) ==
    [id |-> entry.id, project_id |-> entry.projectId,
     start_time |-> entry.startTime, end_time |-> entry.endTime,
     duration |-> entry.duration, tags |-> entry.tags,
     is_running |-> (entry.isRunning \/ FALSE),
     updated_at |-> toISOString(t)]

mapTimeEntry(data) ==
    [id |-> data.id, projectId |-> data.project_id,
     startTime |-> data.start_time, endTime |-> data.end_time,
     duration |-> data.duration, tags |-> data.tags,
     isRunning |-> data.is_running, updatedAt |-> data.updated_at]

(* the column list of updateTimeEntry; a column whose value is undefined
   is not sent, updated_at is always set anew *)
ColumnOf ==
    [projectId |-> "project_id", startTime |-> "start_time",
     endTime |-> "end_time", duration |-> "duration", tags |-> "tags",
     isRunning |-> "is_running"]

(* variant: is_running left out of the column list *)
toColumnsNoFlag(updates, t) ==
    LET sent == (DOMAIN updates \cap DOMAIN ColumnOf) \ {"isRunning"}
    IN [col \in {ColumnOf[f] : f \in sent} \cup {"updated_at"} |->
          IF col = "updated_at" THEN toISOString(t)
          ELSE updates[CHOOSE f \in sent : ColumnOf[f] = col]]

toColumns(updates, t) ==
    LET sent == DOMAIN updates \cap DOMAIN ColumnOf
    IN [col \in {ColumnOf[f] : f \in sent} \cup {"updated_at"} |->
          IF col = "updated_at" THEN toISOString(t)
          ELSE updates[CHOOSE f \in sent : ColumnOf[f] = col]]

(* .order('start_time', { ascending: false }) *)
getTimeEntries(table, ok) ==
    IF ok
    THEN LET rows == sortByStart(table)
         IN [i \in 1..Len(rows) |-> mapTimeEntry(rows[i])]
    ELSE <<>>

createTimeEntry(table, entry, t, ok) ==
    IF ok
    THEN LET row == toRow(entry, t)
         IN [db |-> Append(table, row), ret |-> <<mapTimeEntry(row)>>]
    ELSE [db |-> table, ret |-> <<>>]

updateTimeEntry(table, id, updates, t, ok) ==
    LET index == findIndex(table, id)
    IN IF ok /\ index # 0
       THEN LET row == merge(table[index], toColumns(updates, t))
            IN [db |-> [table EXCEPT ![index] = row],
                ret |-> <<mapTimeEntry(row)>>]
       ELSE [db |-> table, ret |-> <<>>]

----------------------------------------------------------------------------
(* TimeEntryStorageManager (remote-backed, with a read cache per client) *)
cacheDuration == 30000

(* variant: a cache that holds entries never expires *)
cacheIsFreshForever(cached, fetched, t) ==
    Len(cached) > 0

cacheIsFresh(cached, fetched, t) ==
    Len(cached) > 0 /\ t - fetched < cacheDuration

(* getAll: the cached list while it is fresh, otherwise a fetch *)
getAllRemote(cached, fetched, table, t, ok) ==
    IF cacheIsFresh(cached, fetched, t)
    THEN [cache |-> cached, lastFetch |-> fetched]
    ELSE [cache |-> getTimeEntries(table, ok), lastFetch |-> t]

(* entries.find(e => e.isRunning) *)
findRunning(entries) ==
    IF \E i \in 1..Len(entries) : entries[i].isRunning
    THEN <<entries[CHOOSE i \in 1..Len(entries) :
                      /\ entries[i].isRunning
                      /\ \A j \in 1..(i - 1) : ~entries[j].isRunning]>>
    ELSE <<>>

(* entries.find(e => e.id === id) *)
findEntry(entries, id) ==
    IF findIndex(entries, id) = 0 THEN <<>>
    ELSE <<entries[findIndex(entries, id)]>>

Clients == {"A", "B"}
NoCall == [op |-> "none", projectId |-> "", newId |-> 0, target |-> 0,
           updates |-> <<>>]
NoLast == [op |-> "none", observed |-> <<>>, ret |-> <<>>]

RemoteInit ==
    /\ db = <<>>
    /\ cache = [c \in Clients |-> <<>>]
    /\ lastFetch = [c \in Clients |-> 0]
    /\ pc = [c \in Clients |-> "idle"]
    /\ call = [c \in Clients |-> NoCall]
    /\ last = [c \in Clients |-> NoLast]

localVars ==
    <<store, result, observed, report, calendarVars, catalogVars, pageVars>>

(* bounds of the shared-store model *)
MaxRemoteEntries == 3
MaxRemoteNow == 30000
RemoteTickMs == 15000

(* startTimer, up to the await inside getRunningEntry: look for a running
   entry in this client's view of the table *)
StartTimerRemote(c, projectId, ok) ==
    /\ pc[c] = "idle"
    /\ nextId <= MaxRemoteEntries
    /\ LET view == getAllRemote(cache[c], lastFetch[c], db, now, ok)
           runningEntry == findRunning(view.cache)
       IN /\ cache' = [cache EXCEPT ![c] = view.cache]
          /\ lastFetch' = [lastFetch EXCEPT ![c] = view.lastFetch]
          /\ call' = [call EXCEPT ![c] =
                        [op |-> "startTimer", projectId |-> projectId,
                         newId |-> nextId,
                         target |-> IF runningEntry = <<>> THEN 0
                                    ELSE runningEntry[1].id,
                         updates |-> <<>>]]
          /\ pc' = [pc EXCEPT ![c] = IF runningEntry = <<>> THEN "create"
                                     ELSE "getById"]
    /\ nextId' = nextId + 1
    /\ UNCHANGED <<db, last, now, localVars>>

(* what follows a finished stopTimer: the create of startTimer, or nothing *)
afterStop(c, ret) ==
    IF call[c].op = "startTimer"
    THEN /\ pc' = [pc EXCEPT ![c] = "create"]
         /\ last' = last
    ELSE /\ pc' = [pc EXCEPT ![c] = "idle"]
         /\ last' = [last EXCEPT ![c] =
                        [op |-> "stopTimer", observed |-> <<>>, ret |-> ret]]

(* stopTimer, up to the await inside getById *)
getByIdStep(c, id, ok) ==
    LET view == getAllRemote(cache[c], lastFetch[c], db, now, ok)
        entry == findEntry(view.cache, id)
    IN /\ cache' = [cache EXCEPT ![c] = view.cache]
       /\ lastFetch' = [lastFetch EXCEPT ![c] = view.lastFetch]
       /\ IF entry = <<>> \/ ~entry[1].isRunning
          THEN /\ afterStop(c, <<>>)
               /\ call' = [call EXCEPT ![c].target = id]
          ELSE LET endTime == toISOString(now)
                   duration == (getTime(endTime) - getTime(entry[1].startTime))
                                   \div MsPerSecond
               IN /\ call' = [call EXCEPT ![c].target = id,
                                 ![c].updates =
                                    <<[endTime |-> endTime,
                                       duration |-> duration,
                                       isRunning |-> FALSE,
                                       updatedAt |-> toISOString(now)]>>]
                  /\ pc' = [pc EXCEPT ![c] = "update"]
                  /\ last' = last
       /\ UNCHANGED <<db, now, nextId, localVars>>

StopAllTimersRemote(c, ok) ==
    /\ pc[c] = "getById"
    /\ getByIdStep(c, call[c].target, ok)

(* update: the row is written, then the cached copy replaced *)
UpdateRemote(c, ok) ==
    /\ pc[c] = "update"
    /\ LET r == updateTimeEntry(db, call[c].target, call[c].updates[1], now, ok)
           index == findIndex(cache[c], call[c].target)
       IN /\ db' = r.db
          /\ cache' = IF r.ret # <<>> /\ index # 0
                      THEN [cache EXCEPT ![c][index] = r.ret[1]]
                      ELSE cache
          /\ afterStop(c, r.ret)
    /\ call' = [call EXCEPT ![c].updates = <<>>]
    /\ UNCHANGED <<lastFetch, now, nextId, localVars>>

(* startTimer after stopAllTimers: build the entry and create it *)
CreateRemote(c, ok) ==
    /\ pc[c] = "create"
    /\ LET entry == [id |-> call[c].newId, projectId |-> call[c].projectId,
                     startTime |-> toISOString(now),
                     endTime |-> undefinedTime,
                     duration |-> 0, tags |-> <<>>,
                     updatedAt |-> toISOString(now), isRunning |-> TRUE]
           r == createTimeEntry(db, entry, now, ok)
       IN /\ db' = r.db
          /\ cache' = IF r.ret # <<>>
                      THEN [cache EXCEPT ![c] = <<r.ret[1]>> \o @]
                      ELSE cache
          /\ last' = [last EXCEPT ![c] =
                        [op |-> "startTimer",
                         observed |-> IF call[c].target = 0 THEN <<>>
                                      ELSE <<call[c].target>>,
                         ret |-> IF r.ret # <<>> THEN r.ret ELSE <<entry>>]]
    /\ pc' = [pc EXCEPT ![c] = "idle"]
    /\ call' = [call EXCEPT ![c] = NoCall]
    /\ UNCHANGED <<lastFetch, now, nextId, localVars>>

TickRemote ==
    /\ now + RemoteTickMs <= MaxRemoteNow
    /\ now' = now + RemoteTickMs
    /\ UNCHANGED <<nextId, localVars, remoteVars>>


----------------------------------------------------------------------------
(* One client on a reliable localStorage *)
NoResult == [op |-> "none", id |-> 0, ret |-> <<>>]
NoObservation == [id |-> 0, value |-> 0]
NoReport == [period |-> "none"]

(* no project and no task yet *)
CatalogInit ==
    /\ projects = <<>>
    /\ tasks = <<>>

NoStreak == [current |-> -1, longest |-> -1]
NoHeatmap == <<>>

(* no goal set, nothing computed for one *)
NoProgress ==
    [op |-> "none", goal |-> <<>>, counted |-> <<>>, totalSeconds |-> 0]
GoalInit ==
    /\ goals = <<>>
    /\ progress = NoProgress

(* TaskDetailPage not mounted *)
ActivityInit ==
    /\ taskEntries = <<>>
    /\ selectedEntry = <<>>

(* useTimer: useState(null), useState(0), and the mount effect on a store
   without a running entry *)
Instances == {"Dashboard", "Timer"}
NoHook == [runningEntry |-> <<>>, currentDuration |-> 0]
HookInit == hooks = [h \in Instances |-> NoHook]

(* PomodoroStorageManager.getSettings without stored settings, in minutes,
   and the state PomodoroTimer mounts with *)
DefaultSettings ==
    [workDuration |-> 25, breakDuration |-> 5, longBreakDuration |-> 15,
     sessionsUntilLongBreak |-> 4, autoStartBreaks |-> FALSE,
     autoStartWork |-> FALSE, soundEnabled |-> TRUE]
mountPomodoro(settings) ==
    [settings |-> settings, isRunning |-> FALSE,
     timeLeft |-> settings.workDuration * 60, timerType |-> "work",
     sessionsCompleted |-> 0, currentSession |-> <<>>]
PomodoroInit ==
    /\ pomodoro = mountPomodoro(DefaultSettings)
    /\ sessions = <<>>

(* ReminderStorageManager (remote-backed) before any call, no reminder
   set; two runs of checkReminders may be under way at a time *)
CheckIds == {1, 2}
NoCheck == [pc |-> "idle", pending |-> <<>>]
ReminderInit ==
    /\ reminders = <<>>
    /\ reminderCache = [cache |-> <<>>, lastFetch |-> 0]
    /\ checks = [k \in CheckIds |-> NoCheck]
    /\ marked = {}

(* the pages other than the timer and the reports, before any use *)
PagesInit ==
    GoalInit /\ ActivityInit /\ HookInit /\ PomodoroInit /\ ReminderInit
BesideGoalInit == ActivityInit /\ HookInit /\ PomodoroInit /\ ReminderInit
BesideActivityInit == GoalInit /\ HookInit /\ PomodoroInit /\ ReminderInit
BesideHookInit == GoalInit /\ ActivityInit /\ PomodoroInit /\ ReminderInit
BesidePomodoroInit == GoalInit /\ ActivityInit /\ HookInit /\ ReminderInit
BesideReminderInit == GoalInit /\ ActivityInit /\ HookInit /\ PomodoroInit

(* nothing computed yet, the zone is UTC: the timer reads no local time, and
   the sums of a report do not depend on where its window lies *)
CalendarInit ==
    /\ streak = NoStreak
    /\ heatmap = NoHeatmap
    /\ timezone = 0

Init ==
    /\ store = <<>>
    /\ now = 0
    /\ nextId = 1
    /\ result = NoResult
    /\ observed = NoObservation
    /\ report = NoReport
    /\ CalendarInit
    /\ CatalogInit
    /\ PagesInit
    /\ RemoteInit

Tick ==
    /\ now + TickMs <= MaxNow
    /\ now' = now + TickMs
    /\ UNCHANGED <<store, nextId, result, observed, report>>
    /\ UNCHANGED calendarVars
    /\ UNCHANGED catalogVars
    /\ UNCHANGED pageVars
    /\ UNCHANGED remoteVars

StartTimerIO(projectId, tags, stopOk, createOk) ==
    /\ nextId <= MaxEntries
    /\ LET r == startTimer(store, nextId, projectId, tags, now, stopOk, createOk)
       IN /\ store' = r.store
          /\ result' = [op |-> "startTimer", id |-> nextId, ret |-> r.ret]
    /\ nextId' = nextId + 1
    /\ UNCHANGED <<now, observed, report>>
    /\ UNCHANGED calendarVars
    /\ UNCHANGED catalogVars
    /\ UNCHANGED pageVars
    /\ UNCHANGED remoteVars

StopTimerIO(id, writeOk) ==
    /\ LET r == stopTimer(store, id, now, writeOk)
       IN /\ store' = r.store
          /\ result' = [op |-> "stopTimer", id |-> id, ret |-> r.ret]
    /\ UNCHANGED <<now, nextId, observed, report>>
    /\ UNCHANGED calendarVars
    /\ UNCHANGED catalogVars
    /\ UNCHANGED pageVars
    /\ UNCHANGED remoteVars

StartTimer(projectId, tags) == StartTimerIO(projectId, tags, TRUE, TRUE)

StopTimer(id) == StopTimerIO(id, TRUE)

(* the display tick of useTimer: getCurrentDuration on the running entry *)
UpdateDuration ==
    /\ getRunningEntry(store) # <<>>
    /\ LET entry == getRunningEntry(store)[1]
       IN observed' = [id |-> entry.id,
                       value |-> getCurrentDuration(entry, now)]
    /\ UNCHANGED <<store, now, nextId, result, report>>
    /\ UNCHANGED calendarVars
    /\ UNCHANGED catalogVars
    /\ UNCHANGED pageVars
    /\ UNCHANGED remoteVars

Next ==
    \/ Tick
    \/ \E p \in Projects, tags \in TimerTags : StartTimer(p, tags)
    \/ \E id \in 1..(MaxEntries + 1) : StopTimer(id)
    \/ UpdateDuration

Spec == Init /\ [][Next]_vars

----------------------------------------------------------------------------
(* One client on a localStorage whose setItem may throw (quota exceeded,
   storage disabled); saveAll catches and logs the exception *)
StartTimerFallible ==
    /\ nextId <= MaxFallibleEntries
    /\ \E p \in Projects, tags \in TimerTags, stopOk \in BOOLEAN, createOk \in BOOLEAN :
          StartTimerIO(p, tags, stopOk, createOk)

StopTimerFallible ==
    \E id \in 1..(MaxFallibleEntries + 1), writeOk \in BOOLEAN :
        StopTimerIO(id, writeOk)

NextFallible ==
    \/ Tick
    \/ StartTimerFallible
    \/ StopTimerFallible

SpecFallible == Init /\ [][NextFallible]_vars

----------------------------------------------------------------------------
(* Two clients of one account on a reliable network *)
NextShared ==
    \/ TickRemote
    \/ \E c \in Clients, p \in {"p1"} : StartTimerRemote(c, p, TRUE)
    \/ \E c \in Clients : StopAllTimersRemote(c, TRUE)
    \/ \E c \in Clients : UpdateRemote(c, TRUE)
    \/ \E c \in Clients : CreateRemote(c, TRUE)

SpecShared == Init /\ [][NextShared]_vars

----------------------------------------------------------------------------
(* One client of the remote table on a network where any single call may
   fail: a failed select is answered with [], a failed insert or update
   with null *)
SoleClient == "A"

NextUnreliable ==
    \/ TickRemote
    \/ \E ok \in BOOLEAN : StartTimerRemote(SoleClient, "p1", ok)
    \/ \E ok \in BOOLEAN : StopAllTimersRemote(SoleClient, ok)
    \/ \E ok \in BOOLEAN : UpdateRemote(SoleClient, ok)
    \/ \E ok \in BOOLEAN : CreateRemote(SoleClient, ok)

SpecUnreliable == Init /\ [][NextUnreliable]_vars

----------------------------------------------------------------------------
(* Two clients of one account: one runs timers, the other reads the entry
   list and clears its cache.  Date.now() is far from 0, the initial
   lastFetch: the clock starts one cache lifetime after the epoch. *)
MaxStaleEntries == 2
MaxStaleTicks == 3
StaleTickMs == cacheDuration \div 2
Writers == {"A"}
Readers == {"B"}

InitStale ==
    /\ store = <<>>
    /\ now = cacheDuration
    /\ nextId = 1
    /\ result = NoResult
    /\ observed = NoObservation
    /\ report = NoReport
    /\ CalendarInit
    /\ CatalogInit
    /\ PagesInit
    /\ RemoteInit

TickStale ==
    /\ now + StaleTickMs <= cacheDuration + MaxStaleTicks * StaleTickMs
    /\ now' = now + StaleTickMs
    /\ UNCHANGED <<nextId, localVars, remoteVars>>

(* getAllEntries, called by a page of client c whatever else c is doing *)
GetAllEntriesRemote(c, ok) ==
    /\ LET view == getAllRemote(cache[c], lastFetch[c], db, now, ok)
       IN /\ cache' = [cache EXCEPT ![c] = view.cache]
          /\ lastFetch' = [lastFetch EXCEPT ![c] = view.lastFetch]
          /\ last' = [last EXCEPT ![c] =
                        [op |-> "getAll", at |-> now, ret |-> view.cache]]
    /\ UNCHANGED <<db, pc, call, now, nextId, localVars>>

ClearCacheRemote(c) ==
    /\ cache' = [cache EXCEPT ![c] = <<>>]
    /\ lastFetch' = [lastFetch EXCEPT ![c] = 0]
    /\ UNCHANGED <<db, pc, call, last, now, nextId, localVars>>

NextStale ==
    \/ TickStale
    \/ \E c \in Writers :
          nextId <= MaxStaleEntries /\ StartTimerRemote(c, "p1", TRUE)
    \/ \E c \in Writers : StopAllTimersRemote(c, TRUE)
    \/ \E c \in Writers : UpdateRemote(c, TRUE)
    \/ \E c \in Writers : CreateRemote(c, TRUE)
    \/ \E c \in Readers : GetAllEntriesRemote(c, TRUE)
    \/ \E c \in Readers : ClearCacheRemote(c)

SpecStale == InitStale /\ [][NextStale]_vars

----------------------------------------------------------------------------
(* JavaScript numbers that come out of a division.  A finite value is kept
   as the exact fraction num / den with den > 0; x / 0 is NaN or an
   infinity as IEEE 754 gives it. *)
NaN == [kind |-> "NaN", num |-> 0, den |-> 1]
Infinity == [kind |-> "Infinity", num |-> 1, den |-> 1]
NegInfinity == [kind |-> "-Infinity", num |-> -1, den |-> 1]

Divide(a, b) ==
    IF b = 0
    THEN IF a = 0 THEN NaN ELSE IF a > 0 THEN Infinity ELSE NegInfinity
    ELSE IF b > 0 THEN [kind |-> "number", num |-> a, den |-> b]
         ELSE [kind |-> "number", num |-> -a, den |-> -b]

Times(x, k) == IF x.kind = "number" THEN [x EXCEPT !.num = @ * k] ELSE x

Over(x, k) == IF x.kind = "number" THEN [x EXCEPT !.den = @ * k] ELSE x

(* x > k and x < k for an integer k; every comparison with NaN is false *)
GreaterThan(x, k) ==
    \/ x.kind = "Infinity"
    \/ x.kind = "number" /\ x.num > k * x.den
LessThan(x, k) ==
    \/ x.kind = "-Infinity"
    \/ x.kind = "number" /\ x.num < k * x.den

(* Math.ceil(a / b) for b > 0 *)
Ceil(a, b) == -((-a) \div b)

----------------------------------------------------------------------------
(* ReportGenerator *)
SecondsPerHour == 3600

(* a <= b for two Dates held as (UTC day, ms of that day): a year of
   milliseconds is wider than the integers of the checker, so the Dates of
   a range are compared in this form *)
notAfter(a, b) == a.date < b.date \/ (a.date = b.date /\ a.ms <= b.ms)

getEntriesByDateRange(s, startDate, endDate) ==
    SelectSeq(getAll(s), LAMBDA e : /\ notAfter(startDate, e.startTime)
                                    /\ notAfter(e.startTime, endDate))

(* a Map<key, number> in insertion order *)
mapIndex(map, key) ==
    IF \E i \in 1..Len(map) : map[i].key = key
    THEN CHOOSE i \in 1..Len(map) : map[i].key = key
    ELSE 0

(* variant: the running sum dropped, map.set(key, seconds) *)
mapSetOnly(map, key, seconds) ==
    LET i == mapIndex(map, key)
    IN IF i = 0
       THEN Append(map, [key |-> key, seconds |-> seconds])
       ELSE [map EXCEPT ![i].seconds = seconds]

(* map.set(key, (map.get(key) || 0) + seconds) *)
mapAdd(map, key, seconds) ==
    LET i == mapIndex(map, key)
    IN IF i = 0
       THEN Append(map, [key |-> key, seconds |-> 0 + seconds])
       ELSE [map EXCEPT ![i].seconds = @ + seconds]

RECURSIVE totalSecondsOf(_)
totalSecondsOf(entries) ==
    IF entries = <<>> THEN 0
    ELSE totalSecondsOf(SubSeq(entries, 1, Len(entries) - 1))
            + entries[Len(entries)].duration

RECURSIVE projectMapOf(_)
projectMapOf(entries) ==
    IF entries = <<>> THEN <<>>
    ELSE LET entry == entries[Len(entries)]
         IN mapAdd(projectMapOf(SubSeq(entries, 1, Len(entries) - 1)),
                   entry.projectId, entry.duration)

RECURSIVE addTags(_, _, _)
addTags(map, tags, seconds) ==
    IF tags = <<>> THEN map
    ELSE addTags(mapAdd(map, Head(tags), seconds), Tail(tags), seconds)

RECURSIVE tagMapOf(_)
tagMapOf(entries) ==
    IF entries = <<>> THEN <<>>
    ELSE LET entry == entries[Len(entries)]
         IN addTags(tagMapOf(SubSeq(entries, 1, Len(entries) - 1)),
                    entry.tags, entry.duration)

RECURSIVE dailyMapOf(_)
dailyMapOf(entries) ==
    IF entries = <<>> THEN <<>>
    ELSE LET entry == entries[Len(entries)]
         IN mapAdd(dailyMapOf(SubSeq(entries, 1, Len(entries) - 1)),
                   entry.startTime.date, entry.duration)

(* Array.prototype.sort is stable: insertion keeps equal items in order.
   projectBreakdown and tagBreakdown: (a, b) => b.hours - a.hours *)
RECURSIVE insertByHours(_, _)
insertByHours(sorted, item) ==
    IF sorted = <<>> THEN <<item>>
    ELSE IF item.seconds > Head(sorted).seconds
         THEN <<item>> \o sorted
         ELSE <<Head(sorted)>> \o insertByHours(Tail(sorted), item)

RECURSIVE sortByHours(_)
sortByHours(items) ==
    IF items = <<>> THEN <<>>
    ELSE insertByHours(sortByHours(SubSeq(items, 1, Len(items) - 1)),
                       items[Len(items)])

(* dailyBreakdown: (a, b) => a.date.localeCompare(b.date) *)
RECURSIVE insertByDate(_, _)
insertByDate(sorted, item) ==
    IF sorted = <<>> THEN <<item>>
    ELSE IF item.key < Head(sorted).key
         THEN <<item>> \o sorted
         ELSE <<Head(sorted)>> \o insertByDate(Tail(sorted), item)

RECURSIVE sortByDate(_)
sortByDate(items) ==
    IF items = <<>> THEN <<>>
    ELSE insertByDate(sortByDate(SubSeq(items, 1, Len(items) - 1)),
                      items[Len(items)])

breakdownOf(map, totalSeconds) ==
    sortByHours([i \in 1..Len(map) |->
               [key |-> map[i].key,
                seconds |-> map[i].seconds,
                hours |-> Divide(map[i].seconds, SecondsPerHour),
                percentage |-> Times(Divide(map[i].seconds, totalSeconds), 100)]])

NoBestDay == [key |-> -1, seconds |-> 0]

RECURSIVE bestDayOf(_)
bestDayOf(days) ==
    IF days = <<>> THEN NoBestDay
    ELSE LET best == bestDayOf(SubSeq(days, 1, Len(days) - 1))
             day == days[Len(days)]
         IN IF day.seconds > best.seconds THEN day ELSE best

generatePrediction(averageHoursPerDay) ==
    [nextWeekHours |-> Over(Times(averageHoursPerDay, 77), 10),
     trend |-> IF GreaterThan(averageHoursPerDay, 6) THEN "up"
               ELSE IF LessThan(averageHoursPerDay, 3) THEN "down"
               ELSE "stable"]

generateReport(s, period, startDate, endDate) ==
    LET entries == getEntriesByDateRange(s, toISOString(startDate),
                                         toISOString(endDate))
        totalSeconds == totalSecondsOf(entries)
        daysDiff == Ceil(endDate - startDate, MsPerDay)
        averageHoursPerDay == Divide(totalSeconds, SecondsPerHour * daysDiff)
        dailyBreakdown == sortByDate(dailyMapOf(entries))
    IN [period |-> period,
        startDate |-> toISOString(startDate),
        endDate |-> toISOString(endDate),
        totalSeconds |-> totalSeconds,
        totalHours |-> Divide(totalSeconds, SecondsPerHour),
        projectBreakdown |-> breakdownOf(projectMapOf(entries), totalSeconds),
        tagBreakdown |-> breakdownOf(tagMapOf(entries), totalSeconds),
        dailyBreakdown |-> dailyBreakdown,
        bestDay |-> bestDayOf(dailyBreakdown),
        averageHoursPerDay |-> averageHoursPerDay,
        prediction |-> generatePrediction(averageHoursPerDay)]

(* date.setHours(0, 0, 0, 0) and date.setHours(23, 59, 59, 999) *)
startOfDay(date) == setHours(date, 0, 0, 0, 0)
endOfDay(date) == setHours(date, 23, 59, 59, 999)

generateDayReport(s, date) ==
    generateReport(s, "day", startOfDay(date), endOfDay(date))

(* variant: diff = dayOfWeek - 1 for every day, Sunday included *)
generateWeekReportFromSunday(s, date) ==
    LET dayOfWeek == getDay(date)
        diff == dayOfWeek - 1
        start == setHours(addDays(date, -diff), 0, 0, 0, 0)
        end == setHours(addDays(start, 6), 23, 59, 59, 999)
    IN generateReport(s, "week", start, end)

generateWeekReport(s, date) ==
    LET dayOfWeek == getDay(date)
        diff == IF dayOfWeek = 0 THEN 6 ELSE dayOfWeek - 1
        start == setHours(addDays(date, -diff), 0, 0, 0, 0)
        end == setHours(addDays(start, 6), 23, 59, 59, 999)
    IN generateReport(s, "week", start, end)

----------------------------------------------------------------------------
(* The report generator over a store of entries left by timers and by
   manually logged entries *)
MaxReportEntries == 2
Noon == MsPerDay \div 2
ReportStarts == {Noon, MsPerDay}
ReportDurations == {0, 1800, 3600}
ReportTags == {<<>>, <<"a">>, <<"a", "b">>}
ReportDates == {Noon, MsPerDay + Noon}

(* a running entry, or one stopped after seconds of work *)
timeEntry(id, projectId, start, seconds, tags, running) ==
    [id |-> id, projectId |-> projectId,
     startTime |-> toISOString(start),
     endTime |-> IF running THEN undefinedTime
                 ELSE toISOString(start + seconds * MsPerSecond),
     duration |-> IF running THEN 0 ELSE seconds,
     tags |-> tags,
     updatedAt |-> toISOString(start + seconds * MsPerSecond),
     isRunning |-> running]

ReportStores ==
    UNION {
       {s \in [1..n -> [projectId : Projects, start : ReportStarts,
                        seconds : ReportDurations, tags : ReportTags,
                        running : BOOLEAN]] :
              /\ \A i \in 1..n : s[i].running => s[i].seconds = 0
              /\ Cardinality({i \in 1..n : s[i].running}) <= 1}
       : n \in 0..MaxReportEntries}

InitReport ==
    /\ \E s \in ReportStores :
          store = saveAll(<<>>,
                          [i \in 1..Len(s) |->
                              timeEntry(i, s[i].projectId, s[i].start,
                                        s[i].seconds, s[i].tags, s[i].running)],
                          TRUE)
    /\ now = 2 * MsPerDay
    /\ nextId = MaxReportEntries + 1
    /\ result = NoResult
    /\ observed = NoObservation
    /\ report = NoReport
    /\ CalendarInit
    /\ CatalogInit
    /\ PagesInit
    /\ RemoteInit

GenerateDayReport(date) ==
    /\ report' = generateDayReport(store, date)
    /\ UNCHANGED <<store, now, nextId, result, observed>>
    /\ UNCHANGED calendarVars
    /\ UNCHANGED catalogVars
    /\ UNCHANGED pageVars
    /\ UNCHANGED remoteVars

GenerateReport(period, startDate, endDate) ==
    /\ report' = generateReport(store, period, startDate, endDate)
    /\ UNCHANGED <<store, now, nextId, result, observed>>
    /\ UNCHANGED calendarVars
    /\ UNCHANGED catalogVars
    /\ UNCHANGED pageVars
    /\ UNCHANGED remoteVars

NextReport ==
    \/ \E date \in ReportDates : GenerateDayReport(date)
    \/ GenerateReport("week", 0, 2 * MsPerDay - 1)

SpecReport == InitReport /\ [][NextReport]_vars

----------------------------------------------------------------------------
(* The tag breakdown over entries logged through the dialog.  The text of
   the tags field is held as its comma-separated pieces, already trimmed. *)

(* formData.tags.split(',').map(t => t.trim()).filter(Boolean) *)
splitTags(pieces) == SelectSeq(pieces, LAMBDA t : t # "")

MaxTagEntries == 2
TagTexts == {<<"">>, <<"a">>, <<"a", "b">>, <<"a", "a">>, <<"a", "">>}
TagDurations == {1800, 3600}

InitTags ==
    /\ \E n \in 0..MaxTagEntries :
          \E s \in [1..n -> [start : ReportStarts, seconds : TagDurations,
                             text : TagTexts]] :
             store = saveAll(<<>>,
                             [i \in 1..n |->
                                 timeEntry(i, "p1", s[i].start, s[i].seconds,
                                           splitTags(s[i].text), FALSE)],
                             TRUE)
    /\ now = 2 * MsPerDay
    /\ nextId = MaxTagEntries + 1
    /\ result = NoResult
    /\ observed = NoObservation
    /\ report = NoReport
    /\ CalendarInit
    /\ CatalogInit
    /\ PagesInit
    /\ RemoteInit

NextTags ==
    \/ \E date \in ReportDates : GenerateDayReport(date)
    \/ GenerateReport("week", 0, 2 * MsPerDay - 1)

SpecTags == InitTags /\ [][NextTags]_vars

----------------------------------------------------------------------------
(* Report windows taken from the current date, at some hour of one of the
   first days of 1970, in some time zone *)
MaxWeekEntries == 1
MaxWeekDay == 10
WeekNows == {d * MsPerDay + h * MsPerHour : d \in 0..MaxWeekDay, h \in {1, 12, 23}}
WeekStarts == {Noon, 4 * MsPerDay + Noon}

InitWeek ==
    /\ \E n \in 0..MaxWeekEntries : \E starts \in [1..n -> WeekStarts] :
          store = saveAll(<<>>,
                          [i \in 1..n |->
                              timeEntry(i, "p1", starts[i], 1800, <<>>, FALSE)],
                          TRUE)
    /\ now \in WeekNows
    /\ nextId = MaxWeekEntries + 1
    /\ result = NoResult
    /\ observed = NoObservation
    /\ report = NoReport
    /\ streak = NoStreak
    /\ heatmap = NoHeatmap
    /\ timezone \in TimeZones
    /\ CatalogInit
    /\ PagesInit
    /\ RemoteInit

(* generateWeekReport(new Date()) *)
GenerateWeekReport ==
    /\ report' = generateWeekReport(store, now)
    /\ UNCHANGED <<store, now, nextId, result, observed>>
    /\ UNCHANGED calendarVars
    /\ UNCHANGED catalogVars
    /\ UNCHANGED pageVars
    /\ UNCHANGED remoteVars

(* the current week, or a window of the one current instant *)
NextWeek ==
    \/ GenerateWeekReport
    \/ GenerateReport("day", now, now)

SpecWeek == InitWeek /\ [][NextWeek]_vars

----------------------------------------------------------------------------
(* TimeEntryStorageManager.getTodayEntries and getWeekEntries at instant t:
   both hand midnight and the midnight one or seven days later to
   getEntriesByDateRange, which keeps both ends *)
getTodayEntries(s, t) ==
    LET today == setHours(t, 0, 0, 0, 0)
        tomorrow == addDays(today, 1)
    IN getEntriesByDateRange(s, toISOString(today), toISOString(tomorrow))

getWeekEntries(s, t) ==
    LET dayOfWeek == getDay(t)
        diff == IF dayOfWeek = 0 THEN 6 ELSE dayOfWeek - 1
        monday == setHours(addDays(t, -diff), 0, 0, 0, 0)
        sunday == addDays(monday, 7)
    IN getEntriesByDateRange(s, toISOString(monday), toISOString(sunday))

(* Entries started at noon of 1 January 1970, at the midnight that begins
   Friday 2 January and at the midnight that begins Monday 5 January, read
   on the days from 1 January on *)
MaxWindowEntries == 2
MaxWindowDay == 7
WindowStarts == {Noon, MsPerDay, 4 * MsPerDay}

InitWindows ==
    /\ \E n \in 0..MaxWindowEntries : \E starts \in [1..n -> WindowStarts] :
          store = saveAll(<<>>,
                          [i \in 1..n |->
                              timeEntry(i, "p1", starts[i], 1800, <<>>, FALSE)],
                          TRUE)
    /\ now = Noon
    /\ nextId = MaxWindowEntries + 1
    /\ result = NoResult
    /\ observed = NoObservation
    /\ report = NoReport
    /\ streak = NoStreak
    /\ heatmap = NoHeatmap
    /\ timezone \in TimeZones
    /\ CatalogInit
    /\ PagesInit
    /\ RemoteInit

(* the clock reaches the same hour of the next day *)
DayPasses ==
    /\ now < MaxWindowDay * MsPerDay
    /\ now' = now + MsPerDay
    /\ UNCHANGED <<store, nextId, result, observed, report>>
    /\ UNCHANGED calendarVars
    /\ UNCHANGED catalogVars
    /\ UNCHANGED pageVars
    /\ UNCHANGED remoteVars

GetTodayEntries ==
    /\ result' = [op |-> "getTodayEntries", id |-> 0,
                  ret |-> getTodayEntries(store, now)]
    /\ UNCHANGED <<store, now, nextId, observed, report>>
    /\ UNCHANGED calendarVars
    /\ UNCHANGED catalogVars
    /\ UNCHANGED pageVars
    /\ UNCHANGED remoteVars

GetWeekEntries ==
    /\ result' = [op |-> "getWeekEntries", id |-> 0,
                  ret |-> getWeekEntries(store, now)]
    /\ UNCHANGED <<store, now, nextId, observed, report>>
    /\ UNCHANGED calendarVars
    /\ UNCHANGED catalogVars
    /\ UNCHANGED pageVars
    /\ UNCHANGED remoteVars

NextWindows ==
    \/ DayPasses
    \/ GetTodayEntries
    \/ GetWeekEntries

SpecWindows == InitWindows /\ [][NextWindows]_vars

----------------------------------------------------------------------------
(* ReportGenerator.calculateStreak *)

(* new Set(allEntries.map(e => new Date(e.startTime).toISOString().split('T')[0]));
   the Set forgets the order in which getAllEntries returned the entries *)
datesWithActivity(s) ==
    {dateString(getTime(getAll(s)[i].startTime)) : i \in 1..Len(s)}

(* Array.from(dates).sort().reverse(): latest date first *)
RECURSIVE sortReverse(_)
sortReverse(dates) ==
    IF dates = {} THEN <<>>
    ELSE LET latest == CHOOSE d \in dates : \A e \in dates : e <= d
         IN <<latest>> \o sortReverse(dates \ {latest})

includes(sortedDates, dateStr) ==
    \E k \in 1..Len(sortedDates) : sortedDates[k] = dateStr

(* the first loop, from its i-th round on; today is local midnight *)
RECURSIVE currentStreakFrom(_, _, _)
currentStreakFrom(sortedDates, today, i) ==
    IF i >= Len(sortedDates) THEN 0
    ELSE IF includes(sortedDates, dateString(addDays(today, -i)))
         THEN 1 + currentStreakFrom(sortedDates, today, i + 1)
         ELSE 0

(* the second loop, from its i-th round on (i counts from 1 as in the code,
   sortedDates[i] of the code is sortedDates[i + 1] here); new Date of a
   date string is midnight UTC of that date *)
RECURSIVE longestStreakFrom(_, _, _, _)
longestStreakFrom(sortedDates, i, tempStreak, longestStreak) ==
    IF i >= Len(sortedDates) THEN longestStreak
    ELSE LET prevDate == sortedDates[i] * MsPerDay
             currDate == sortedDates[i + 1] * MsPerDay
             dayDiff == (prevDate - currDate) \div MsPerDay
         IN IF dayDiff = 1
            THEN longestStreakFrom(sortedDates, i + 1, tempStreak + 1,
                                   IF tempStreak + 1 > longestStreak
                                   THEN tempStreak + 1 ELSE longestStreak)
            ELSE longestStreakFrom(sortedDates, i + 1, 1, longestStreak)

calculateStreak(s, t) ==
    IF Len(getAll(s)) = 0 THEN [current |-> 0, longest |-> 0]
    ELSE LET sortedDates == sortReverse(datesWithActivity(s))
             today == setHours(t, 0, 0, 0, 0)
             currentStreak == currentStreakFrom(sortedDates, today, 0)
             longestStreak == longestStreakFrom(sortedDates, 1, 1, 0)
         IN [current |-> currentStreak,
             longest |-> IF longestStreak > currentStreak
                         THEN longestStreak ELSE currentStreak]

----------------------------------------------------------------------------
(* The streak of a history of logged entries, read at some moment of
   5 January 1970 (UTC) or early on the day after *)
MaxStreakEntries == 3
StreakDays == 1..4
StreakStarts ==
    {d * MsPerDay + h * MsPerHour : d \in StreakDays, h \in {1, 10, 22}}
StreakNows == {4 * MsPerDay + h * MsPerHour : h \in {12, 23, 26}}

InitStreak ==
    /\ \E n \in 0..MaxStreakEntries : \E starts \in [1..n -> StreakStarts] :
          store = saveAll(<<>>,
                          [i \in 1..n |->
                              timeEntry(i, "p1", starts[i], 1800, <<>>, FALSE)],
                          TRUE)
    /\ now \in StreakNows
    /\ nextId = MaxStreakEntries + 1
    /\ result = NoResult
    /\ observed = NoObservation
    /\ report = NoReport
    /\ streak = NoStreak
    /\ heatmap = NoHeatmap
    /\ timezone \in TimeZones
    /\ CatalogInit
    /\ PagesInit
    /\ RemoteInit

CalculateStreak ==
    /\ streak' = calculateStreak(store, now)
    /\ UNCHANGED <<store, now, nextId, result, observed, report>>
    /\ UNCHANGED <<heatmap, timezone>>
    /\ UNCHANGED catalogVars
    /\ UNCHANGED pageVars
    /\ UNCHANGED remoteVars

NextStreak == CalculateStreak

SpecStreak == InitStreak /\ [][NextStreak]_vars

----------------------------------------------------------------------------
(* ReportGenerator.generateHeatmapData *)

(* the Gregorian calendar behind new Date(year, monthIndex, day) *)
isLeapYear(year) == (year % 4 = 0 /\ year % 100 # 0) \/ year % 400 = 0
daysInYear(year) == IF isLeapYear(year) THEN 366 ELSE 365
daysInMonth(year, monthIndex) ==
    <<31, IF isLeapYear(year) THEN 29 ELSE 28, 31, 30, 31, 30,
      31, 31, 30, 31, 30, 31>>[monthIndex + 1]

RECURSIVE daysBeforeMonth(_, _)
daysBeforeMonth(year, monthIndex) ==
    IF monthIndex = 0 THEN 0
    ELSE daysBeforeMonth(year, monthIndex - 1) + daysInMonth(year, monthIndex - 1)

(* days from 1 January 1970 to 1 January of year *)
RECURSIVE daysBeforeYear(_)
daysBeforeYear(year) ==
    IF year = 1970 THEN 0
    ELSE IF year > 1970 THEN daysBeforeYear(year - 1) + daysInYear(year - 1)
    ELSE daysBeforeYear(year + 1) - daysInYear(year)

(* new Date(year, monthIndex, day): local midnight, as (UTC day, ms) *)
newDate(year, monthIndex, day) ==
    LET localDay == daysBeforeYear(year) + daysBeforeMonth(year, monthIndex)
                       + (day - 1)
        utc == 0 - timezone
    IN [date |-> localDay + (utc \div MsPerDay), ms |-> utc % MsPerDay]

(* Math.max(...values.map(s => s / 3600), 1) *)
RECURSIVE maxSecondsOf(_)
maxSecondsOf(map) ==
    IF map = <<>> THEN 0
    ELSE LET rest == maxSecondsOf(Tail(map))
         IN IF Head(map).seconds > rest THEN Head(map).seconds ELSE rest

maxHoursOf(map) ==
    IF maxSecondsOf(map) > SecondsPerHour
    THEN Divide(maxSecondsOf(map), SecondsPerHour)
    ELSE Divide(1, 1)

(* x / y for two finite numbers, y > 0; x >= p / q *)
Quotient(x, y) == [kind |-> "number", num |-> x.num * y.den, den |-> x.den * y.num]
AtLeast(x, p, q) == x.num * q >= p * x.den

(* variant: the top threshold is strict, ratio > 0.75 *)
levelOfStrict(hours, maxHours) ==
    IF hours.num > 0
    THEN LET ratio == Quotient(hours, maxHours)
         IN IF ~AtLeast(Quotient(maxHours, hours), 4, 3) THEN 4
            ELSE IF AtLeast(ratio, 1, 2) THEN 3
            ELSE IF AtLeast(ratio, 1, 4) THEN 2
            ELSE 1
    ELSE 0

(* lines 169-176: the level of a day *)
levelOf(hours, maxHours) ==
    IF hours.num > 0
    THEN LET ratio == Quotient(hours, maxHours)
         IN IF AtLeast(ratio, 3, 4) THEN 4
            ELSE IF AtLeast(ratio, 1, 2) THEN 3
            ELSE IF AtLeast(ratio, 1, 4) THEN 2
            ELSE 1
    ELSE 0

(* dateMap.get(dateStr) || 0 *)
mapGet(map, key) ==
    IF mapIndex(map, key) = 0 THEN 0 ELSE map[mapIndex(map, key)].seconds

(* the number of rounds of while (currentDate <= end), currentDate
   advancing by one day from start *)
roundsFromTo(start, end) ==
    IF ~notAfter(start, end) THEN 0
    ELSE (end.date - start.date) + (IF start.ms <= end.ms THEN 1 ELSE 0)

generateHeatmapData(s, year) ==
    LET start == newDate(year, 0, 1)
        end == newDate(year, 11, 31)
        entries == getEntriesByDateRange(s, start, end)
        dateMap == dailyMapOf(entries)
        maxHours == maxHoursOf(dateMap)
    IN [k \in 1..roundsFromTo(start, end) |->
          LET dateStr == start.date + (k - 1)
              hours == Divide(mapGet(dateMap, dateStr), SecondsPerHour)
          IN [date |-> dateStr, hours |-> hours,
              level |-> levelOf(hours, maxHours)]]

----------------------------------------------------------------------------
(* The heatmap of 1969 over entries logged at noon UTC of its last three
   days and of 1 January 1970 *)
MaxHeatmapEntries == 2
HeatmapYear == 1969
HeatmapStarts == {d * MsPerDay + Noon : d \in {-3, -2, -1, 0}}
HeatmapDurations == {14040, 21600, 28800}

InitHeatmap ==
    /\ \E n \in 0..MaxHeatmapEntries :
          \E e \in [1..n -> [start : HeatmapStarts, seconds : HeatmapDurations]] :
             store = saveAll(<<>>,
                             [i \in 1..n |->
                                 timeEntry(i, "p1", e[i].start, e[i].seconds,
                                           <<>>, FALSE)],
                             TRUE)
    /\ now = MsPerDay
    /\ nextId = MaxHeatmapEntries + 1
    /\ result = NoResult
    /\ observed = NoObservation
    /\ report = NoReport
    /\ streak = NoStreak
    /\ heatmap = NoHeatmap
    /\ timezone \in TimeZones
    /\ CatalogInit
    /\ PagesInit
    /\ RemoteInit

GenerateHeatmapData(year) ==
    /\ heatmap' = generateHeatmapData(store, year)
    /\ UNCHANGED <<store, now, nextId, result, observed, report>>
    /\ UNCHANGED <<streak, timezone>>
    /\ UNCHANGED catalogVars
    /\ UNCHANGED pageVars
    /\ UNCHANGED remoteVars

NextHeatmap == GenerateHeatmapData(HeatmapYear)

SpecHeatmap == InitHeatmap /\ [][NextHeatmap]_vars

(* The heatmap of a year in which no day reaches an hour of tracked time *)
MaxQuietEntries == 2
QuietDurations == {900, 1800}

InitQuietYear ==
    /\ \E n \in 0..MaxQuietEntries :
          \E e \in [1..n -> [start : HeatmapStarts, seconds : QuietDurations]] :
             store = saveAll(<<>>,
                             [i \in 1..n |->
                                 timeEntry(i, "p1", e[i].start, e[i].seconds,
                                           <<>>, FALSE)],
                             TRUE)
    /\ now = MsPerDay
    /\ nextId = MaxQuietEntries + 1
    /\ result = NoResult
    /\ observed = NoObservation
    /\ report = NoReport
    /\ streak = NoStreak
    /\ heatmap = NoHeatmap
    /\ timezone \in TimeZones
    /\ CatalogInit
    /\ PagesInit
    /\ RemoteInit

SpecQuietYear == InitQuietYear /\ [][NextHeatmap]_vars

----------------------------------------------------------------------------
(* useProjects.deleteProject and useTasks.deleteTask: the item is deleted in
   its own list; loadProjects / loadTasks then refresh the hook's state *)
deleteProject(projectList, id) == delete(projectList, id, TRUE).store
deleteTask(taskList, id) == delete(taskList, id, TRUE).store

(* Two projects with one task each, and entries logged on them *)
MaxCatalogEntries == 2
TaskIds == {"t1", "t2"}
ProjectOfTask == [t1 |-> "p1", t2 |-> "p2"]
CatalogEntries ==
    {[projectId |-> p, taskId |-> <<>>] : p \in Projects}
       \cup {[projectId |-> ProjectOfTask[t], taskId |-> <<t>>] : t \in TaskIds}

InitCatalog ==
    /\ \E n \in 0..MaxCatalogEntries : \E e \in [1..n -> CatalogEntries] :
          store = saveAll(<<>>,
                          [i \in 1..n |->
                              timeEntry(i, e[i].projectId, Noon, 1800, <<>>, FALSE)
                                 @@ ("taskId" :> e[i].taskId)],
                          TRUE)
    /\ projects = saveAll(<<>>, <<[id |-> "p1"], [id |-> "p2"]>>, TRUE)
    /\ tasks = saveAll(<<>>,
                       <<[id |-> "t1", projectId |-> ProjectOfTask["t1"]],
                         [id |-> "t2", projectId |-> ProjectOfTask["t2"]]>>,
                       TRUE)
    /\ now = MsPerDay
    /\ nextId = MaxCatalogEntries + 1
    /\ result = NoResult
    /\ observed = NoObservation
    /\ report = NoReport
    /\ CalendarInit
    /\ PagesInit
    /\ RemoteInit

DeleteProject(id) ==
    /\ projects' = deleteProject(projects, id)
    /\ UNCHANGED <<store, tasks, now, nextId, result, observed, report>>
    /\ UNCHANGED calendarVars
    /\ UNCHANGED pageVars
    /\ UNCHANGED remoteVars

DeleteTask(id) ==
    /\ tasks' = deleteTask(tasks, id)
    /\ UNCHANGED <<store, projects, now, nextId, result, observed, report>>
    /\ UNCHANGED calendarVars
    /\ UNCHANGED pageVars
    /\ UNCHANGED remoteVars

NextCatalog ==
    \/ \E id \in Projects : DeleteProject(id)
    \/ \E id \in TaskIds : DeleteTask(id)

SpecCatalog == InitCatalog /\ [][NextCatalog]_vars

----------------------------------------------------------------------------
(* TimesheetPage: the dialog that logs an entry by hand or edits one *)
MsPerMinute == 60 * MsPerSecond

(* new Date("YYYY-MM-DDTHH:mm"): the minute of the datetime-local field,
   read as local time *)
parseLocal(minute) == minute * MsPerMinute - timezone

(* variant: an edit also writes endTime = start + duration *)
handleSubmitEndOnEdit(s, editingEntry, id, formData, t) ==
    LET durationSeconds == formData.duration * 60
        start == parseLocal(formData.startTime)
    IN IF editingEntry # <<>>
       THEN update(s, editingEntry[1],
                   [projectId |-> formData.projectId,
                    startTime |-> toISOString(start),
                    endTime |-> toISOString(start + durationSeconds * MsPerSecond),
                    duration |-> durationSeconds,
                    tags |-> formData.tags,
                    updatedAt |-> toISOString(t)],
                   TRUE).store
       ELSE create(s,
                   [id |-> id, projectId |-> formData.projectId,
                    startTime |-> toISOString(start),
                    endTime |-> toISOString(start + durationSeconds * MsPerSecond),
                    duration |-> durationSeconds,
                    tags |-> formData.tags,
                    updatedAt |-> toISOString(t),
                    isRunning |-> FALSE],
                   TRUE).store

(* formData.duration is the whole number of minutes typed into the field
   (type="number", min="1"); editingEntry is the id of the entry being
   edited, if any *)
handleSubmit(s, editingEntry, id, formData, t) ==
    LET durationSeconds == formData.duration * 60
        start == parseLocal(formData.startTime)
    IN IF editingEntry # <<>>
       THEN update(s, editingEntry[1],
                   [projectId |-> formData.projectId,
                    startTime |-> toISOString(start),
                    duration |-> durationSeconds,
                    tags |-> formData.tags,
                    updatedAt |-> toISOString(t)],
                   TRUE).store
       ELSE create(s,
                   [id |-> id, projectId |-> formData.projectId,
                    startTime |-> toISOString(start),
                    endTime |-> toISOString(start + durationSeconds * MsPerSecond),
                    duration |-> durationSeconds,
                    tags |-> formData.tags,
                    updatedAt |-> toISOString(t),
                    isRunning |-> FALSE],
                   TRUE).store

----------------------------------------------------------------------------
(* One user who runs timers, logs entries by hand and edits the entries
   listed, running ones included *)
MaxSheetEntries == 2
FormMinutes == {1}
FormDurations == {1}
FormData ==
    [projectId : {"p1"}, startTime : FormMinutes, duration : FormDurations,
     tags : TimerTags]

CreateEntry(formData) ==
    /\ nextId <= MaxSheetEntries
    /\ store' = handleSubmit(store, <<>>, nextId, formData, now)
    /\ result' = [op |-> "handleSubmit", id |-> nextId, ret |-> <<>>]
    /\ nextId' = nextId + 1
    /\ UNCHANGED <<now, observed, report>>
    /\ UNCHANGED calendarVars
    /\ UNCHANGED catalogVars
    /\ UNCHANGED pageVars
    /\ UNCHANGED remoteVars

EditEntry(id, formData) ==
    /\ getById(store, id) # <<>>
    /\ store' = handleSubmit(store, <<id>>, 0, formData, now)
    /\ result' = [op |-> "handleSubmit", id |-> id, ret |-> <<>>]
    /\ UNCHANGED <<now, nextId, observed, report>>
    /\ UNCHANGED calendarVars
    /\ UNCHANGED catalogVars
    /\ UNCHANGED pageVars
    /\ UNCHANGED remoteVars

NextTimesheet ==
    \/ Tick
    \/ nextId <= MaxSheetEntries /\ StartTimer("p1", <<>>)
    \/ \E id \in 1..MaxSheetEntries : StopTimer(id)
    \/ \E formData \in FormData : CreateEntry(formData)
    \/ \E id \in 1..MaxSheetEntries, formData \in FormData :
          EditEntry(id, formData)

SpecTimesheet == Init /\ [][NextTimesheet]_vars

----------------------------------------------------------------------------
(* GoalStorageManager, and the progress of a goal as GoalTracker and
   GoalsPage compute it.  A goal's projectId is optional. *)

(* today.getFullYear() and today.getMonth(), in local time *)
getFullYear(date) ==
    LET localDay == (date + timezone) \div MsPerDay
    IN CHOOSE y \in 1969..1971 :
          /\ daysBeforeYear(y) <= localDay
          /\ localDay < daysBeforeYear(y + 1)
getMonth(date) ==
    LET year == getFullYear(date)
        dayOfYear == ((date + timezone) \div MsPerDay) - daysBeforeYear(year)
    IN CHOOSE m \in 0..11 :
          /\ daysBeforeMonth(year, m) <= dayOfYear
          /\ dayOfYear < daysBeforeMonth(year, m) + daysInMonth(year, m)

createDailyGoal(g, id, targetHours, projectId, t) ==
    LET today == setHours(t, 0, 0, 0, 0)
        tomorrow == addDays(today, 1)
    IN create(g, [id |-> id, type |-> "daily", targetHours |-> targetHours,
                  startDate |-> toISOString(today),
                  endDate |-> toISOString(tomorrow),
                  projectId |-> projectId,
                  createdAt |-> toISOString(t)], TRUE).store

createWeeklyGoal(g, id, targetHours, projectId, t) ==
    LET dayOfWeek == getDay(t)
        diff == IF dayOfWeek = 0 THEN 6 ELSE dayOfWeek - 1
        monday == setHours(addDays(t, -diff), 0, 0, 0, 0)
        sunday == addDays(monday, 7)
    IN create(g, [id |-> id, type |-> "weekly", targetHours |-> targetHours,
                  startDate |-> toISOString(monday),
                  endDate |-> toISOString(sunday),
                  projectId |-> projectId,
                  createdAt |-> toISOString(t)], TRUE).store

(* lastDay is day 0 of the next month, set to 23:59:59.999 local time *)
createMonthlyGoal(g, id, targetHours, projectId, t) ==
    LET firstDay == newDate(getFullYear(t), getMonth(t), 1)
        lastMidnight ==
            newDate(getFullYear(t), getMonth(t), daysInMonth(getFullYear(t), getMonth(t)))
        lastMs == lastMidnight.ms + (MsPerDay - 1)
        lastDay == [date |-> lastMidnight.date + (lastMs \div MsPerDay),
                    ms |-> lastMs % MsPerDay]
    IN create(g, [id |-> id, type |-> "monthly", targetHours |-> targetHours,
                  startDate |-> firstDay,
                  endDate |-> lastDay,
                  projectId |-> projectId,
                  createdAt |-> toISOString(t)], TRUE).store

(* Array.prototype.find: the first goal that passes, if any *)
firstGoal(items, passing) ==
    IF passing = {} THEN <<>>
    ELSE <<items[CHOOSE i \in passing : \A j \in passing : i <= j]>>

getActiveDailyGoal(g, t) ==
    LET items == getAll(g)
    IN firstGoal(items,
                 {i \in 1..Len(items) :
                     /\ items[i].type = "daily"
                     /\ setHours(getTime(items[i].startDate), 0, 0, 0, 0)
                           = setHours(t, 0, 0, 0, 0)})

getActiveWeeklyGoal(g, t) ==
    LET items == getAll(g)
    IN firstGoal(items,
                 {i \in 1..Len(items) :
                     /\ items[i].type = "weekly"
                     /\ notAfter(items[i].startDate, toISOString(t))
                     /\ notAfter(toISOString(t), items[i].endDate)})

getActiveMonthlyGoal(g, t) ==
    LET items == getAll(g)
    IN firstGoal(items,
                 {i \in 1..Len(items) :
                     /\ items[i].type = "monthly"
                     /\ notAfter(items[i].startDate, toISOString(t))
                     /\ notAfter(toISOString(t), items[i].endDate)})

calculateTotalDuration(entries) == totalSecondsOf(entries)

(* GoalsPage.getGoalProgress and the effect of GoalTracker: the entries of
   the goal's window, of its project if it has one, and their seconds;
   both divide them by 3600 and by targetHours for display *)
goalProgress(s, goal) ==
    LET entries == getEntriesByDateRange(s, goal.startDate, goal.endDate)
        filteredEntries ==
            IF goal.projectId # <<>>
            THEN SelectSeq(entries, LAMBDA e : e.projectId = goal.projectId[1])
            ELSE entries
        totalSeconds == calculateTotalDuration(filteredEntries)
    IN [goal |-> <<goal.id>>,
        counted |-> [i \in 1..Len(filteredEntries) |-> filteredEntries[i].id],
        totalSeconds |-> totalSeconds]

----------------------------------------------------------------------------
(* Goals set on one day or the next, over entries logged around the
   midnight between them *)
MaxGoalEntries == 1
MaxGoals == 1
MaxGoalDays == 1
GoalStarts == {Noon, MsPerDay - 1, MsPerDay}
GoalTypes == {"daily", "weekly", "monthly"}
GoalProjects == {<<>>, <<"p1">>}

InitGoal ==
    /\ \E n \in 0..MaxGoalEntries :
          \E s \in [1..n -> [projectId : Projects, start : GoalStarts]] :
             store = saveAll(<<>>,
                             [i \in 1..n |->
                                 timeEntry(i, s[i].projectId, s[i].start,
                                           1800, <<>>, FALSE)],
                             TRUE)
    /\ now = Noon
    /\ nextId = MaxGoalEntries + 1
    /\ result = NoResult
    /\ observed = NoObservation
    /\ report = NoReport
    /\ CalendarInit
    /\ CatalogInit
    /\ GoalInit
    /\ BesideGoalInit
    /\ RemoteInit

NextDay ==
    /\ now \div MsPerDay < MaxGoalDays
    /\ now' = now + MsPerDay
    /\ UNCHANGED <<store, nextId, result, observed, report>>
    /\ UNCHANGED calendarVars
    /\ UNCHANGED catalogVars
    /\ UNCHANGED pageVars
    /\ UNCHANGED remoteVars

CreateGoal(type, projectId) ==
    /\ Len(goals) < MaxGoals
    /\ goals' = CASE type = "daily" ->
                      createDailyGoal(goals, nextId, 1, projectId, now)
                 [] type = "weekly" ->
                      createWeeklyGoal(goals, nextId, 1, projectId, now)
                 [] type = "monthly" ->
                      createMonthlyGoal(goals, nextId, 1, projectId, now)
    /\ nextId' = nextId + 1
    /\ UNCHANGED <<store, now, result, observed, report, progress>>
    /\ UNCHANGED calendarVars
    /\ UNCHANGED catalogVars
    /\ UNCHANGED besideGoalVars
    /\ UNCHANGED remoteVars

(* GoalsPage renders the progress of each goal listed *)
GetGoalProgress(i) ==
    /\ i <= Len(goals)
    /\ progress' = goalProgress(store, getAll(goals)[i])
                       @@ [op |-> "getGoalProgress"]
    /\ UNCHANGED <<store, now, nextId, result, observed, report, goals>>
    /\ UNCHANGED calendarVars
    /\ UNCHANGED catalogVars
    /\ UNCHANGED besideGoalVars
    /\ UNCHANGED remoteVars

(* GoalTracker mounts for a type: the active goal of that type, if any *)
GoalTracker(type) ==
    LET activeGoal == CASE type = "daily" -> getActiveDailyGoal(goals, now)
                      [] type = "weekly" -> getActiveWeeklyGoal(goals, now)
                      [] type = "monthly" -> getActiveMonthlyGoal(goals, now)
    IN /\ progress' = IF activeGoal # <<>>
                      THEN goalProgress(store, activeGoal[1])
                              @@ [op |-> "GoalTracker"]
                      ELSE [NoProgress EXCEPT !.op = "GoalTracker"]
       /\ UNCHANGED <<store, now, nextId, result, observed, report, goals>>
       /\ UNCHANGED calendarVars
       /\ UNCHANGED catalogVars
       /\ UNCHANGED besideGoalVars
       /\ UNCHANGED remoteVars

NextGoal ==
    \/ NextDay
    \/ \E type \in GoalTypes, projectId \in GoalProjects :
          CreateGoal(type, projectId)
    \/ \E i \in 1..MaxGoals : GetGoalProgress(i)
    \/ \E type \in GoalTypes : GoalTracker(type)

SpecGoal == InitGoal /\ [][NextGoal]_vars

----------------------------------------------------------------------------
(* TaskDetailPage: the entries of one task, and the dialog that adds an
   activity to the entry picked from that list *)
TaskOfPage == "t1"

getEntriesByTask(s, taskId) ==
    SelectSeq(getAll(s), LAMBDA e : "taskId" \in DOMAIN e /\ e.taskId = <<taskId>>)

(* selectedEntry.activities || [] *)
activitiesOf(entry) ==
    IF "activities" \in DOMAIN entry THEN entry.activities ELSE <<>>

(* the updates are the whole selected object, as it was when the list was
   loaded, with the new activity appended; a property that was undefined
   when the object was parsed is not part of the spread *)
handleAddActivity(s, selected, activityId, description, hours, t) ==
    LET activity == [id |-> activityId, description |-> description,
                     duration |-> hours * SecondsPerHour,
                     timestamp |-> toISOString(t)]
        updatedEntry ==
            merge(stringify(selected),
                  [activities |-> Append(activitiesOf(selected), activity),
                   updatedAt |-> toISOString(t)])
    IN update(s, selected.id, updatedEntry, TRUE).store

----------------------------------------------------------------------------
(* A task with one timer entry, the task page open on it, and the timer
   controls of the application in use meanwhile *)
MaxActivityEntries == 2
MaxActivities == 1

InitActivity ==
    /\ \E running \in BOOLEAN :
          store = saveAll(<<>>,
                          <<timeEntry(1, "p1", 0, IF running THEN 0 ELSE 1,
                                      <<>>, running)
                               @@ [taskId |-> <<TaskOfPage>>,
                                   activities |-> <<>>]>>,
                          TRUE)
    /\ now = 0
    /\ nextId = 2
    /\ result = NoResult
    /\ observed = NoObservation
    /\ report = NoReport
    /\ CalendarInit
    /\ CatalogInit
    /\ BesideActivityInit
    /\ taskEntries = getEntriesByTask(store, TaskOfPage)
    /\ selectedEntry = <<>>
    /\ RemoteInit

(* refreshData, also what mounting the page does *)
RefreshData ==
    /\ taskEntries' = getEntriesByTask(store, TaskOfPage)
    /\ UNCHANGED <<store, now, nextId, result, observed, report, selectedEntry>>
    /\ UNCHANGED calendarVars
    /\ UNCHANGED catalogVars
    /\ UNCHANGED besideActivityVars
    /\ UNCHANGED remoteVars

(* the Atividade button of the k-th entry listed *)
SelectEntry(k) ==
    /\ k <= Len(taskEntries)
    /\ selectedEntry' = <<taskEntries[k]>>
    /\ UNCHANGED <<store, now, nextId, result, observed, report, taskEntries>>
    /\ UNCHANGED calendarVars
    /\ UNCHANGED catalogVars
    /\ UNCHANGED besideActivityVars
    /\ UNCHANGED remoteVars

HandleAddActivity(description, hours) ==
    /\ selectedEntry # <<>>
    /\ Len(activitiesOf(selectedEntry[1])) < MaxActivities
    /\ store' = handleAddActivity(store, selectedEntry[1], nextId, description,
                                  hours, now)
    /\ result' = [op |-> "handleAddActivity", id |-> selectedEntry[1].id,
                  ret |-> <<>>]
    /\ nextId' = nextId + 1
    /\ selectedEntry' = <<>>
    /\ taskEntries' = getEntriesByTask(store', TaskOfPage)
    /\ UNCHANGED <<now, observed, report>>
    /\ UNCHANGED calendarVars
    /\ UNCHANGED catalogVars
    /\ UNCHANGED besideActivityVars
    /\ UNCHANGED remoteVars

NextActivity ==
    \/ Tick
    \/ nextId <= MaxActivityEntries /\ StartTimer("p1", <<>>)
    \/ \E id \in 1..MaxActivityEntries : StopTimer(id)
    \/ RefreshData
    \/ \E k \in 1..MaxActivityEntries : SelectEntry(k)
    \/ HandleAddActivity("review", 1)

SpecActivity == InitActivity /\ [][NextActivity]_vars

----------------------------------------------------------------------------
(* useTimer: every component that calls the hook has a state of its own
   over the one store; the Dashboard page uses its instance to start timers,
   the Timer card uses its own to show and stop the running one *)

(* the mount effect: setRunningEntry(getRunningEntry() || null) *)
mountTimer(s) == [NoHook EXCEPT !.runningEntry = getRunningEntry(s)]

MaxHookEntries == 2

MountTimer(h) ==
    /\ hooks' = [hooks EXCEPT ![h] = mountTimer(store)]
    /\ UNCHANGED <<store, now, nextId, result, observed, report>>
    /\ UNCHANGED calendarVars
    /\ UNCHANGED catalogVars
    /\ UNCHANGED besideHookVars
    /\ UNCHANGED remoteVars

(* the second effect and its interval: getCurrentDuration(runningEntry) *)
UpdateDurationHook(h) ==
    /\ hooks[h].runningEntry # <<>>
    /\ hooks' = [hooks EXCEPT ![h].currentDuration =
                     getCurrentDuration(hooks[h].runningEntry[1], now)]
    /\ UNCHANGED <<store, now, nextId, result, observed, report>>
    /\ UNCHANGED calendarVars
    /\ UNCHANGED catalogVars
    /\ UNCHANGED besideHookVars
    /\ UNCHANGED remoteVars

StartTimerHook(h, projectId) ==
    /\ nextId <= MaxHookEntries
    /\ LET r == startTimer(store, nextId, projectId, <<>>, now, TRUE, TRUE)
       IN /\ store' = r.store
          /\ result' = [op |-> "startTimer", id |-> nextId, ret |-> r.ret]
          /\ hooks' = [hooks EXCEPT ![h].runningEntry = r.ret]
    /\ nextId' = nextId + 1
    /\ UNCHANGED <<now, observed, report>>
    /\ UNCHANGED calendarVars
    /\ UNCHANGED catalogVars
    /\ UNCHANGED besideHookVars
    /\ UNCHANGED remoteVars

(* if (!runningEntry) return null; otherwise the entry held is stopped *)
StopTimerHook(h) ==
    /\ IF hooks[h].runningEntry = <<>>
       THEN /\ result' = [op |-> "useTimer.stopTimer", id |-> 0, ret |-> <<>>]
            /\ UNCHANGED <<store, hooks>>
       ELSE LET r == stopTimer(store, hooks[h].runningEntry[1].id, now, TRUE)
            IN /\ store' = r.store
               /\ result' = [op |-> "useTimer.stopTimer",
                             id |-> hooks[h].runningEntry[1].id, ret |-> r.ret]
               /\ hooks' = [hooks EXCEPT ![h] = NoHook]
    /\ UNCHANGED <<now, nextId, observed, report>>
    /\ UNCHANGED calendarVars
    /\ UNCHANGED catalogVars
    /\ UNCHANGED besideHookVars
    /\ UNCHANGED remoteVars

NextHook ==
    \/ Tick
    \/ \E h \in Instances : MountTimer(h)
    \/ \E h \in Instances : UpdateDurationHook(h)
    \/ \E h \in Instances : StartTimerHook(h, "p1")
    \/ \E h \in Instances : StopTimerHook(h)

SpecHook == Init /\ [][NextHook]_vars

----------------------------------------------------------------------------
(* PomodoroStorageManager: the session records *)
createSession(ss, id, type, t) ==
    create(ss, [id |-> id, startTime |-> toISOString(t), duration |-> 0,
                type |-> type, completed |-> FALSE, interrupted |-> FALSE,
                createdAt |-> toISOString(t)], TRUE)

completeSession(ss, id, duration, t) ==
    update(ss, id, [endTime |-> toISOString(t), duration |-> duration,
                    completed |-> TRUE], TRUE).store

interruptSession(ss, id, duration, t) ==
    update(ss, id, [endTime |-> toISOString(t), duration |-> duration,
                    interrupted |-> TRUE], TRUE).store

(* PomodoroTimer: p is the component's state, durations are in seconds *)
maxTime(p) ==
    CASE p.timerType = "work" -> p.settings.workDuration * 60
      [] p.timerType = "break" -> p.settings.breakDuration * 60
      [] p.timerType = "long-break" -> p.settings.longBreakDuration * 60

(* the state after handleTimerComplete; the 0 returned by the updater that
   called it is replaced by the setTimeLeft queued inside *)
timerCompleted(p) ==
    LET stopped == [p EXCEPT !.isRunning = FALSE, !.currentSession = <<>>]
        nextSessionCount == p.sessionsCompleted + 1
    IN IF p.timerType = "work"
       THEN IF nextSessionCount % p.settings.sessionsUntilLongBreak = 0
            THEN [stopped EXCEPT !.sessionsCompleted = @ + 1,
                                 !.timerType = "long-break",
                                 !.timeLeft = p.settings.longBreakDuration * 60]
            ELSE [stopped EXCEPT !.sessionsCompleted = @ + 1,
                                 !.timerType = "break",
                                 !.timeLeft = p.settings.breakDuration * 60]
       ELSE [stopped EXCEPT !.timerType = "work",
                            !.timeLeft = p.settings.workDuration * 60]

(* { ...settings, ...updates }, and the reset of the countdown when the
   timer is not running *)
settingsUpdated(p, updates) ==
    LET newSettings == merge(p.settings, updates)
    IN IF ~p.isRunning
       THEN [p EXCEPT !.settings = newSettings,
                      !.timeLeft = newSettings.workDuration * 60]
       ELSE [p EXCEPT !.settings = newSettings]

----------------------------------------------------------------------------
(* A Pomodoro timer set to periods of one minute, with a long break after
   every second work period; the work period may be set to one or two
   minutes at any time; auto-start stays off *)
MaxSessions == 2
ShortSettings ==
    [DefaultSettings EXCEPT !.workDuration = 1, !.breakDuration = 1,
                            !.longBreakDuration = 1,
                            !.sessionsUntilLongBreak = 2]
SettingsUpdates == {[workDuration |-> 1], [workDuration |-> 2]}

(* the user presses a button or changes a setting only when the countdown
   shows one of these values, in seconds *)
PressTimes == {1, 30, 60, 120}

InitPomodoro ==
    /\ store = <<>>
    /\ now = 0
    /\ nextId = 1
    /\ result = NoResult
    /\ observed = NoObservation
    /\ report = NoReport
    /\ CalendarInit
    /\ CatalogInit
    /\ BesidePomodoroInit
    /\ pomodoro = mountPomodoro(ShortSettings)
    /\ sessions = <<>>
    /\ RemoteInit

HandleStart ==
    /\ pomodoro.timeLeft \in PressTimes
    /\ ~pomodoro.isRunning
    /\ pomodoro.timeLeft # 0
    /\ nextId <= MaxSessions
    /\ LET r == createSession(sessions, nextId, pomodoro.timerType, now)
       IN /\ sessions' = r.store
          /\ pomodoro' = [pomodoro EXCEPT !.currentSession = r.ret,
                                          !.isRunning = TRUE]
    /\ nextId' = nextId + 1
    /\ UNCHANGED <<store, now, result, observed, report>>
    /\ UNCHANGED calendarVars
    /\ UNCHANGED catalogVars
    /\ UNCHANGED besidePomodoroVars
    /\ UNCHANGED remoteVars

HandlePause ==
    /\ pomodoro.timeLeft \in PressTimes
    /\ pomodoro.isRunning
    /\ pomodoro' = [pomodoro EXCEPT !.isRunning = FALSE]
    /\ UNCHANGED <<store, now, nextId, result, observed, report, sessions>>
    /\ UNCHANGED calendarVars
    /\ UNCHANGED catalogVars
    /\ UNCHANGED besidePomodoroVars
    /\ UNCHANGED remoteVars

HandleReset ==
    /\ pomodoro.timeLeft \in PressTimes
    /\ pomodoro' = [pomodoro EXCEPT !.isRunning = FALSE,
                                    !.timeLeft = maxTime(pomodoro),
                                    !.currentSession = <<>>]
    /\ sessions' = IF pomodoro.currentSession # <<>>
                   THEN interruptSession(sessions, pomodoro.currentSession[1].id,
                                         maxTime(pomodoro) - pomodoro.timeLeft,
                                         now)
                   ELSE sessions
    /\ UNCHANGED <<store, now, nextId, result, observed, report>>
    /\ UNCHANGED calendarVars
    /\ UNCHANGED catalogVars
    /\ UNCHANGED besidePomodoroVars
    /\ UNCHANGED remoteVars

(* the interval of the timer effect: one second less, or completion *)
TickPomodoro ==
    /\ pomodoro.isRunning
    /\ pomodoro.timeLeft # 0
    /\ IF pomodoro.timeLeft <= 1
       THEN /\ pomodoro' = timerCompleted(pomodoro)
            /\ sessions' = IF pomodoro.currentSession # <<>>
                           THEN completeSession(sessions,
                                                pomodoro.currentSession[1].id,
                                                maxTime(pomodoro), now)
                           ELSE sessions
       ELSE /\ pomodoro' = [pomodoro EXCEPT !.timeLeft = @ - 1]
            /\ UNCHANGED sessions
    /\ UNCHANGED <<store, now, nextId, result, observed, report>>
    /\ UNCHANGED calendarVars
    /\ UNCHANGED catalogVars
    /\ UNCHANGED besidePomodoroVars
    /\ UNCHANGED remoteVars

HandleSettingsUpdate(updates) ==
    /\ pomodoro.timeLeft \in PressTimes
    /\ pomodoro' = settingsUpdated(pomodoro, updates)
    /\ UNCHANGED <<store, now, nextId, result, observed, report, sessions>>
    /\ UNCHANGED calendarVars
    /\ UNCHANGED catalogVars
    /\ UNCHANGED besidePomodoroVars
    /\ UNCHANGED remoteVars

NextPomodoro ==
    \/ HandleStart
    \/ HandlePause
    \/ HandleReset
    \/ TickPomodoro
    \/ \E updates \in SettingsUpdates : HandleSettingsUpdate(updates)

SpecPomodoro == InitPomodoro /\ [][NextPomodoro]_vars

----------------------------------------------------------------------------
(* ReminderStorageManager (remote-backed) and the reminder check of
   NotificationSystem.  dueDate is a calendar day, dueTime an optional
   minute of that day. *)

(* new Date(r.dueDate + (r.dueTime ? `T${r.dueTime}` : '')).getTime(): a
   date alone is read as UTC midnight, a date with a time as local time *)
dueDateTime(r) ==
    IF r.dueTime = <<>> THEN r.dueDate * MsPerDay
    ELSE r.dueDate * MsPerDay + parseLocal(r.dueTime[1])

(* .order('due_date', { ascending: true }) *)
RECURSIVE insertByDueDate(_, _)
insertByDueDate(sorted, item) ==
    IF sorted = <<>> THEN <<item>>
    ELSE IF item.dueDate < Head(sorted).dueDate THEN <<item>> \o sorted
    ELSE <<Head(sorted)>> \o insertByDueDate(Tail(sorted), item)

RECURSIVE sortByDueDate(_)
sortByDueDate(rows) ==
    IF rows = <<>> THEN <<>>
    ELSE insertByDueDate(sortByDueDate(SubSeq(rows, 1, Len(rows) - 1)),
                         rows[Len(rows)])

(* SupabaseService.getReminders / updateReminder: a failing call is logged
   and answered with [] or null *)
getReminders(table, ok) == IF ok THEN sortByDueDate(table) ELSE <<>>

updateReminder(table, id, updates, ok) ==
    LET index == findIndex(table, id)
    IN IF ok /\ index # 0
       THEN LET row == merge(table[index], updates)
            IN [db |-> [table EXCEPT ![index] = row], ret |-> <<row>>]
       ELSE [db |-> table, ret |-> <<>>]

(* getAll: the cached list while it is fresh, otherwise a fetch *)
getAllReminders(rc, table, t, ok) ==
    IF cacheIsFresh(rc.cache, rc.lastFetch, t)
    THEN rc
    ELSE [cache |-> getReminders(table, ok), lastFetch |-> t]

(* update: the row is written, then the cached copy replaced *)
cacheAfterUpdate(rc, id, ret) ==
    LET index == findIndex(rc.cache, id)
    IN IF ret # <<>> /\ index # 0
       THEN [rc EXCEPT !.cache[index] = ret[1]]
       ELSE rc

(* (a, b) => dateA - dateB *)
RECURSIVE insertByDue(_, _)
insertByDue(sorted, item) ==
    IF sorted = <<>> THEN <<item>>
    ELSE IF dueDateTime(item) < dueDateTime(Head(sorted))
         THEN <<item>> \o sorted
    ELSE <<Head(sorted)>> \o insertByDue(Tail(sorted), item)

RECURSIVE sortByDue(_)
sortByDue(items) ==
    IF items = <<>> THEN <<>>
    ELSE insertByDue(sortByDue(SubSeq(items, 1, Len(items) - 1)),
                     items[Len(items)])

getActiveReminders(all) ==
    sortByDue(SelectSeq(all, LAMBDA r : ~r.completed))

NotifyBeforeMs == 15 * 60 * 1000

getRemindersToNotify(all, t) ==
    SelectSeq(getActiveReminders(all),
              LAMBDA r : /\ ~r.notified
                         /\ t >= dueDateTime(r) - NotifyBeforeMs)

----------------------------------------------------------------------------
(* Reminders due within the hour, the check run on load and every minute,
   on a network where a call may fail *)
MaxReminders == 1
MaxReminderTicks == 2
ReminderTickMs == 10 * MsPerMinute
DueMinutes == {<<20>>, <<40>>}

InitReminder ==
    /\ \E n \in 1..MaxReminders :
          \E r \in [1..n -> [dueTime : DueMinutes, completed : BOOLEAN]] :
             reminders = [i \in 1..n |->
                            [id |-> i, dueDate |-> 0, dueTime |-> r[i].dueTime,
                             completed |-> r[i].completed, notified |-> FALSE,
                             updatedAt |-> toISOString(0)]]
    /\ reminderCache = [cache |-> <<>>, lastFetch |-> 0]
    /\ checks = [k \in CheckIds |-> NoCheck]
    /\ marked = {}
    /\ store = <<>>
    /\ now = 0
    /\ nextId = MaxReminders + 1
    /\ result = NoResult
    /\ observed = NoObservation
    /\ report = NoReport
    /\ CalendarInit
    /\ CatalogInit
    /\ BesideReminderInit
    /\ RemoteInit

TickReminder ==
    /\ now + ReminderTickMs <= MaxReminderTicks * ReminderTickMs
    /\ now' = now + ReminderTickMs
    /\ UNCHANGED <<store, nextId, result, observed, report>>
    /\ UNCHANGED calendarVars
    /\ UNCHANGED catalogVars
    /\ UNCHANGED pageVars
    /\ UNCHANGED remoteVars

(* checkReminders, up to the end of await getRemindersToNotify() *)
CheckReminders(k, ok) ==
    /\ checks[k].pc = "idle"
    /\ LET view == getAllReminders(reminderCache, reminders, now, ok)
           remindersToNotify == getRemindersToNotify(view.cache, now)
       IN /\ reminderCache' = view
          /\ result' = [op |-> "getRemindersToNotify", id |-> k,
                        ret |-> remindersToNotify]
          /\ checks' = [checks EXCEPT ![k] =
                           IF remindersToNotify = <<>> THEN NoCheck
                           ELSE [pc |-> "notify",
                                 pending |-> remindersToNotify]]
    /\ UNCHANGED <<store, now, nextId, observed, report, reminders, marked>>
    /\ UNCHANGED calendarVars
    /\ UNCHANGED catalogVars
    /\ UNCHANGED besideReminderVars
    /\ UNCHANGED remoteVars

(* one round of the for loop: the toast, then await markAsNotified(id) *)
MarkAsNotified(k, ok) ==
    /\ checks[k].pc = "notify"
    /\ LET reminder == Head(checks[k].pending)
           r == updateReminder(reminders, reminder.id,
                               [notified |-> TRUE,
                                updatedAt |-> toISOString(now)], ok)
       IN /\ reminders' = r.db
          /\ reminderCache' = cacheAfterUpdate(reminderCache, reminder.id, r.ret)
          /\ marked' = marked \cup {reminder.id}
          /\ result' = [op |-> "markAsNotified", id |-> reminder.id,
                        ret |-> r.ret]
          /\ checks' = [checks EXCEPT ![k] =
                           IF Tail(checks[k].pending) = <<>> THEN NoCheck
                           ELSE [pc |-> "notify",
                                 pending |-> Tail(checks[k].pending)]]
    /\ UNCHANGED <<store, now, nextId, observed, report>>
    /\ UNCHANGED calendarVars
    /\ UNCHANGED catalogVars
    /\ UNCHANGED besideReminderVars
    /\ UNCHANGED remoteVars

NextReminder ==
    \/ TickReminder
    \/ \E k \in CheckIds, ok \in BOOLEAN : CheckReminders(k, ok)
    \/ \E k \in CheckIds, ok \in BOOLEAN : MarkAsNotified(k, ok)

SpecReminder == InitReminder /\ [][NextReminder]_vars

----------------------------------------------------------------------------
(* Properties of the single-client timer *)

(* the entries as a reader of the store gets them, now and after a step *)
Stored == getAll(store)
StoredNext == getAll(store')
RunningIndexes(s) == {i \in 1..Len(s) : s[i].isRunning}
LastEntry(s) == s[Len(s)]
ElapsedSeconds(from, to) == (to - from) \div 1000

(* C1: between calls of startTimer and stopTimer made by one client, at most
   one stored entry has isRunning = true. *)
C1_AtMostOneRunning == Cardinality(RunningIndexes(Stored)) <= 1

(* a timer was started while another one was running *)
C1_Witness ==
    /\ result.op = "startTimer"
    /\ Len(store) >= 2
    /\ LastEntry(Stored).isRunning
    /\ \E i \in 1..(Len(store) - 1) :
          /\ ~Stored[i].isRunning
          /\ Stored[i].endTime = LastEntry(Stored).startTime

(* C2: startTimer has no precondition; an entry that is running is stopped
   first and kept (isRunning = false, endTime = now, duration = the whole
   seconds since its startTime), every other entry is untouched, and then a
   new entry with startTime = now, duration = 0, isRunning = true is
   appended and returned. *)
C2_StartStopsThenCreates ==
    [][nextId' # nextId =>
        /\ Len(store') = Len(store) + 1
        /\ \A i \in 1..Len(store) :
              IF Stored[i].isRunning
              THEN /\ StoredNext[i].id = Stored[i].id
                   /\ StoredNext[i].projectId = Stored[i].projectId
                   /\ StoredNext[i].startTime = Stored[i].startTime
                   /\ ~StoredNext[i].isRunning
                   /\ StoredNext[i].endTime # undefinedTime
                   /\ getTime(StoredNext[i].endTime) = now
                   /\ StoredNext[i].duration =
                         ElapsedSeconds(getTime(Stored[i].startTime), now)
              ELSE StoredNext[i] = Stored[i]
        /\ LET e == LastEntry(StoredNext)
           IN /\ e.isRunning
              /\ e.duration = 0
              /\ e.endTime = undefinedTime
              /\ getTime(e.startTime) = now
              /\ result'.op = "startTimer"
              /\ result'.ret = <<e>>]_vars

(* startTimer found an entry that had been running for a second or more *)
C2_Witness ==
    /\ result.op = "startTimer"
    /\ result.ret # <<>>
    /\ \E i \in 1..Len(store) :
          /\ ~Stored[i].isRunning
          /\ Stored[i].endTime = result.ret[1].startTime
          /\ Stored[i].duration >= 1

(* C3: the entry stopped by stopTimer(startTimer(p).id), read back from the
   store, has isRunning = false, duration = the whole seconds between its
   startTime and endTime, and duration >= 0. *)
C3_RoundTrip ==
    (result.op = "stopTimer" /\ result.ret # <<>>) =>
        LET read == getById(store, result.id)
        IN /\ read # <<>>
           /\ ~read[1].isRunning
           /\ read[1].endTime # undefinedTime
           /\ read[1].duration =
                 ElapsedSeconds(getTime(read[1].startTime),
                                getTime(read[1].endTime))
           /\ read[1].duration >= 0

(* a timer stopped one and a half seconds after it was started *)
C3_Witness ==
    /\ result.op = "stopTimer"
    /\ result.ret # <<>>
    /\ getById(store, result.id) # <<>>
    /\ LET e == getById(store, result.id)[1]
       IN /\ e.duration = 1
          /\ getTime(e.endTime) - getTime(e.startTime) > 1000

(* C4: stopTimer(id) on an id that is unknown or whose entry is not running
   returns undefined and leaves the store as it was. *)
IsStopTimerStep ==
    /\ result'.op = "stopTimer"
    /\ now' = now /\ nextId' = nextId /\ observed' = observed
NotRunning(s, id) == getById(s, id) = <<>> \/ ~getById(s, id)[1].isRunning

C4_StopIsNoOpUnlessRunning ==
    [][(IsStopTimerStep /\ NotRunning(store, result'.id)) =>
            (store' = store /\ result'.ret = <<>>)]_vars

(* stopTimer was called on an entry stopped earlier, at a later time *)
C4_Witness ==
    /\ result.op = "stopTimer"
    /\ result.ret = <<>>
    /\ getById(store, result.id) # <<>>
    /\ LET e == getById(store, result.id)[1]
       IN ~e.isRunning /\ getTime(e.endTime) < now

(* C8: while an entry is running and the clock does not go back,
   getCurrentDuration never returns less than it returned before. *)
C8_DurationMonotone ==
    [][(/\ observed.id # 0
        /\ observed'.id = observed.id
        /\ now' >= now) => observed'.value >= observed.value]_vars

(* the displayed duration of a running entry has advanced *)
C8_Witness ==
    /\ observed.id # 0
    /\ observed.value >= 1
    /\ getRunningEntry(store) # <<>>
    /\ getRunningEntry(store)[1].id = observed.id

(* C5: a stopTimer call, also one whose store write fails, leaves the
   targeted entry either fully stopped (isRunning = false, endTime = now and
   duration = the whole seconds since startTime, all three) or exactly as
   it was before the call; every other entry is untouched. *)
FullyStopped(before, after, t) ==
    /\ after.id = before.id
    /\ after.projectId = before.projectId
    /\ after.startTime = before.startTime
    /\ ~after.isRunning
    /\ after.endTime # undefinedTime
    /\ getTime(after.endTime) = t
    /\ after.duration = ElapsedSeconds(getTime(before.startTime), t)

C5_StopIsAllOrNothing ==
    [][IsStopTimerStep =>
        /\ Len(store') = Len(store)
        /\ \A i \in 1..Len(store) :
              \/ StoredNext[i] = Stored[i]
              \/ /\ Stored[i].id = result'.id
                 /\ Stored[i].isRunning
                 /\ FullyStopped(Stored[i], StoredNext[i], now)]_vars

(* stopTimer was called on a running entry and its write failed: the call
   reported a stopped entry while the stored one is still running *)
C5_Witness ==
    /\ result.op = "stopTimer"
    /\ result.ret # <<>>
    /\ ~result.ret[1].isRunning
    /\ getById(store, result.id) # <<>>
    /\ getById(store, result.id)[1].isRunning
    /\ getById(store, result.id)[1].endTime = undefinedTime

(* C6: a failing store write is surfaced to the caller of startTimer or
   stopTimer; the entry a call reports as started or stopped is the one the
   store holds. *)
C6_ReportedEntryIsRecorded ==
    result.ret # <<>> => getById(store, result.ret[1].id) = result.ret

----------------------------------------------------------------------------
(* Properties of the report generator *)
ReportMade == report.period # "none"

(* the stored entries whose startTime lies in the window of the report *)
InWindow ==
    {i \in 1..Len(store) :
        /\ getTime(Stored[i].startTime) >= getTime(report.startDate)
        /\ getTime(Stored[i].startTime) <= getTime(report.endDate)}

RECURSIVE DurationSum(_)
DurationSum(indexes) ==
    IF indexes = {} THEN 0
    ELSE LET i == CHOOSE j \in indexes : TRUE
         IN Stored[i].duration + DurationSum(indexes \ {i})

RECURSIVE HoursNumSum(_, _)
HoursNumSum(breakdown, n) ==
    IF n = 0 THEN 0 ELSE breakdown[n].hours.num + HoursNumSum(breakdown, n - 1)

(* C9: for a non-empty set of in-window entries the hours of the project
   buckets sum to totalHours; every in-window entry is counted in the one
   bucket of its project. *)
C9_BreakdownConservation ==
    (ReportMade /\ InWindow # {}) =>
        LET pb == report.projectBreakdown
        IN /\ report.totalSeconds = DurationSum(InWindow)
           /\ report.totalHours.num = report.totalSeconds
           /\ report.totalHours.den = SecondsPerHour
           /\ \A k \in 1..Len(pb) : pb[k].hours.den = SecondsPerHour
           /\ HoursNumSum(pb, Len(pb)) = report.totalHours.num
           /\ \A i \in InWindow :
                 \E k \in 1..Len(pb) :
                    /\ pb[k].key = Stored[i].projectId
                    /\ \A m \in 1..Len(pb) : pb[m].key = pb[k].key => m = k
                    /\ pb[k].hours.num =
                          DurationSum({j \in InWindow :
                                          Stored[j].projectId = pb[k].key})

(* two in-window entries of one project, both with time on them *)
C9_Witness ==
    /\ ReportMade
    /\ Len(report.projectBreakdown) = 1
    /\ \E i, j \in InWindow :
          /\ i # j
          /\ Stored[i].projectId = Stored[j].projectId
          /\ Stored[i].duration > 0
          /\ Stored[j].duration > 0

(* C10: every percentage of projectBreakdown and tagBreakdown is a number in
   [0, 100]; when the in-window entries total zero seconds both lists are
   empty and no NaN or Infinity is emitted. *)
WellFormedPercentage(x) ==
    /\ x.kind = "number"
    /\ 0 <= x.num
    /\ x.num <= 100 * x.den

C10_PercentagesWellFormed ==
    ReportMade =>
        /\ \A k \in 1..Len(report.projectBreakdown) :
              WellFormedPercentage(report.projectBreakdown[k].percentage)
        /\ \A k \in 1..Len(report.tagBreakdown) :
              WellFormedPercentage(report.tagBreakdown[k].percentage)
        /\ report.totalSeconds = 0 =>
              /\ report.projectBreakdown = <<>>
              /\ report.tagBreakdown = <<>>

----------------------------------------------------------------------------
(* Properties of two clients on one store *)
RunningRows == {i \in 1..Len(db) : db[i].is_running}

(* C7: with two clients on one store the single-running rule is kept only
   as far as each client's own view goes.  A completed startTimer has
   stopped the running entry its client saw, if it saw one; two calls that
   both saw none each leave a running entry in the store (the witness). *)
C7_StopsOnlyWhatItSaw ==
    \A c \in Clients :
        (last[c].op = "startTimer" /\ last[c].observed # <<>>) =>
            \A i \in 1..Len(db) :
                db[i].id = last[c].observed[1] => ~db[i].is_running

(* both clients saw no running entry, both created one, both are running;
   on another occasion a client did see a running entry and stopped it *)
C7_Witness ==
    /\ \A c \in Clients :
          /\ pc[c] = "idle"
          /\ last[c].op = "startTimer"
          /\ last[c].observed = <<>>
          /\ \E i \in RunningRows : db[i].id = last[c].ret[1].id
    /\ last["A"].ret[1].id # last["B"].ret[1].id
    /\ Cardinality(RunningRows) >= 2

----------------------------------------------------------------------------
(* Properties of the streak *)
localDate(t) == (t + timezone) \div MsPerDay
ActiveDates == {localDate(getTime(Stored[i].startTime)) : i \in 1..Len(Stored)}

(* the number of consecutive active dates that end with date d *)
RECURSIVE RunEndingAt(_, _)
RunEndingAt(dates, d) ==
    IF d \notin dates THEN 0 ELSE 1 + RunEndingAt(dates, d - 1)

StreakMade == streak # NoStreak

(* C11: the current streak is the number of consecutive calendar dates with
   an entry, counted backward from today; 0 when today has no entry *)
C11_CurrentStreak ==
    StreakMade => streak.current = RunEndingAt(ActiveDates, localDate(now))

(* C12: for a non-empty history the longest streak is the greatest number
   of consecutive calendar dates with an entry *)
C12_LongestStreak ==
    (StreakMade /\ Stored # <<>>) =>
        /\ \A d \in ActiveDates : streak.longest >= RunEndingAt(ActiveDates, d)
        /\ \E d \in ActiveDates : streak.longest = RunEndingAt(ActiveDates, d)

----------------------------------------------------------------------------
(* Properties of the heatmap *)
HeatmapMade == heatmap # NoHeatmap

(* the seconds behind a record's hours, and the busiest day's, at least 1 h *)
SecondsOfRecord(k) == heatmap[k].hours.num
MaxSecondsInYear ==
    LET all == {SecondsOfRecord(k) : k \in 1..Len(heatmap)} \cup {SecondsPerHour}
    IN CHOOSE m \in all : \A x \in all : x <= m

(* C13: a day without hours has level 0; otherwise its share of the year's
   busiest day (at least one hour) gives 4 from 3/4, 3 from 1/2, 2 from 1/4,
   else 1 *)
C13_HeatmapLevels ==
    HeatmapMade =>
        \A k \in 1..Len(heatmap) :
            LET h == SecondsOfRecord(k)
                m == MaxSecondsInYear
            IN heatmap[k].level =
                  IF h = 0 THEN 0
                  ELSE IF 4 * h >= 3 * m THEN 4
                  ELSE IF 2 * h >= m THEN 3
                  ELSE IF 4 * h >= m THEN 2
                  ELSE 1

C13_Witness ==
    /\ HeatmapMade
    /\ MaxSecondsInYear = 28800
    /\ \E k \in 1..Len(heatmap) : SecondsOfRecord(k) = 14040 /\ heatmap[k].level = 2
    /\ \E k \in 1..Len(heatmap) : SecondsOfRecord(k) = 0 /\ heatmap[k].level = 0

(* the calendar days of the year, and the stored entries started on day d *)
DaysOfYear(year) ==
    daysBeforeYear(year)..(daysBeforeYear(year) + daysInYear(year) - 1)
StartedOn(d) ==
    {i \in 1..Len(Stored) : localDate(getTime(Stored[i].startTime)) = d}

(* C14: the heatmap has one record per calendar day of the year, and its
   hours are the summed durations of the stored entries started that day *)
C14_HeatmapCoversYear ==
    HeatmapMade =>
        /\ Len(heatmap) = daysInYear(HeatmapYear)
        /\ \A d \in DaysOfYear(HeatmapYear) :
              \E k \in 1..Len(heatmap) :
                 /\ heatmap[k].date = d
                 /\ \A j \in 1..Len(heatmap) : heatmap[j].date = d => j = k
                 /\ heatmap[k].hours
                       = Divide(DurationSum(StartedOn(d)), SecondsPerHour)

----------------------------------------------------------------------------
(* Properties of the week window *)
WeekStart == getTime(report.startDate)
WeekEnd == getTime(report.endDate)

(* 5 January 1970, day 4 after the epoch, was a Monday *)
IsLocalMonday(t) == ((t + timezone) \div MsPerDay) % 7 = 4
IsLocalMidnight(t) == (t + timezone) % MsPerDay = 0

(* C15: the week window starts at 00:00:00.000 of the Monday on or before
   the input date and ends at 23:59:59.999 of the Sunday six days later, so
   that the input date lies inside it *)
C15_WeekWindow ==
    (ReportMade /\ report.period = "week") =>
        /\ IsLocalMonday(WeekStart) /\ IsLocalMidnight(WeekStart)
        /\ WeekStart <= now /\ now < WeekStart + 7 * MsPerDay
        /\ WeekEnd = WeekStart + 7 * MsPerDay - 1
        /\ WeekStart <= now /\ now <= WeekEnd

(* a Sunday input goes back six days *)
C15_Witness ==
    /\ ReportMade /\ report.period = "week"
    /\ ((now + timezone) \div MsPerDay) % 7 = 3
    /\ (now + timezone) \div MsPerDay = (WeekStart + timezone) \div MsPerDay + 6

----------------------------------------------------------------------------
(* Properties of the average *)

(* the calendar days a window touches, first and last included *)
InclusiveDays ==
    localDate(getTime(report.endDate)) - localDate(getTime(report.startDate)) + 1

(* C16: averageHoursPerDay is totalHours over the inclusive day count of
   the window, a divisor of at least 1, for a window of one day or of one
   instant as well *)
C16_AverageOverInclusiveDays ==
    ReportMade =>
        /\ InclusiveDays >= 1
        /\ report.averageHoursPerDay.kind = "number"
        /\ report.averageHoursPerDay.num * (SecondsPerHour * InclusiveDays)
              = report.totalSeconds * report.averageHoursPerDay.den

----------------------------------------------------------------------------
(* Properties of the read cache *)

(* the list holds every row of the table, each with its current values *)
IsCurrent(entries) ==
    /\ Len(entries) = Len(db)
    /\ \A i \in 1..Len(db) :
          \E k \in 1..Len(entries) : entries[k] = mapTimeEntry(db[i])

IsGetAllStep(c) == last'[c] # last[c] /\ last'[c].op = "getAll"

(* C17: a getAll made a cache lifetime or more after the reader's last
   fetch, or on a cleared cache, returns the table as it stands, with every
   change other clients have committed; what a reader is given can be out
   of date only within the cache lifetime after its last fetch *)
C17_BoundedStaleness ==
    [][\A c \in Clients :
          (IsGetAllStep(c)
             /\ (now - lastFetch[c] >= cacheDuration \/ cache[c] = <<>>))
          => IsCurrent(last'[c].ret)]_vars

(* reader B fetches later than the start of the clock and is given, among
   the current rows, the entry that A started before B's call and the
   entry that A's start has stopped *)
C17_Witness ==
    /\ last["B"].op = "getAll"
    /\ last["B"].at > cacheDuration
    /\ lastFetch["B"] = last["B"].at
    /\ IsCurrent(last["B"].ret)
    /\ last["A"].op = "startTimer"
    /\ \E k \in 1..Len(last["B"].ret) :
          /\ last["B"].ret[k].id = last["A"].ret[1].id
          /\ getTime(last["B"].ret[k].startTime) < last["B"].at
    /\ \E k \in 1..Len(last["B"].ret) : ~last["B"].ret[k].isRunning

----------------------------------------------------------------------------
(* Properties of deletion *)
IdsIn(list) == {list[i].id : i \in 1..Len(list)}

(* C18: no task and no time entry of a deleted project remains, and no time
   entry of a deleted task: every task and entry refers to a project of the
   list, every entry with a task to a task of the list *)
C18_DeletionCascades ==
    /\ \A i \in 1..Len(tasks) : tasks[i].projectId \in IdsIn(projects)
    /\ \A i \in 1..Len(store) :
          /\ store[i].projectId \in IdsIn(projects)
          /\ store[i].taskId # <<>> => store[i].taskId[1] \in IdsIn(tasks)

----------------------------------------------------------------------------
(* Properties of the stored entries *)

(* C19: a stored entry has an endTime exactly when it is not running *)
C19_EndTimeIffStopped ==
    \A i \in 1..Len(Stored) :
        (Stored[i].endTime # undefinedTime) <=> ~Stored[i].isRunning

(* a timer edited while it runs, next to an entry logged by hand *)
C19_Witness ==
    /\ \E i \in 1..Len(Stored) :
          /\ Stored[i].isRunning
          /\ Stored[i].duration = 60
          /\ Stored[i].endTime = undefinedTime
    /\ \E i \in 1..Len(Stored) :
          /\ ~Stored[i].isRunning
          /\ Stored[i].endTime # undefinedTime

(* C20: every stored duration is a whole number of seconds, not negative *)
C20_DurationNonNegative ==
    \A i \in 1..Len(Stored) : Stored[i].duration \in Nat

----------------------------------------------------------------------------
(* Properties of the tag breakdown *)
TagsOf(i) == {Stored[i].tags[k] : k \in 1..Len(Stored[i].tags)}

(* C21: the bucket of a tag holds the full duration of every in-window entry
   that carries the tag, once per entry; every tag carried by an in-window
   entry has a bucket, and an entry without tags is in none. *)
C21_TagFanOut ==
    ReportMade =>
        LET tb == report.tagBreakdown
        IN /\ \A k \in 1..Len(tb) :
                 /\ tb[k].seconds =
                       DurationSum({i \in InWindow : tb[k].key \in TagsOf(i)})
                 /\ tb[k].hours = Divide(tb[k].seconds, SecondsPerHour)
           /\ \A i \in InWindow :
                 \A tag \in TagsOf(i) :
                    \E k \in 1..Len(tb) : tb[k].key = tag

----------------------------------------------------------------------------
(* Properties of goal progress *)
ProgressMade == progress.goal # <<>>
GoalOfProgress ==
    LET items == getAll(goals)
    IN items[findIndex(items, progress.goal[1])]

(* C22: the entries counted toward a goal are those of its project, if it
   has one, that start in the half-open window [startDate, endDate): an
   entry that starts exactly at endDate is not counted. *)
C22_GoalWindowHalfOpen ==
    ProgressMade =>
        LET goal == GoalOfProgress
        IN \A i \in 1..Len(Stored) :
              (\E k \in 1..Len(progress.counted) :
                    progress.counted[k] = Stored[i].id)
                 <=> /\ notAfter(goal.startDate, Stored[i].startTime)
                     /\ notAfter(Stored[i].startTime, goal.endDate)
                     /\ Stored[i].startTime # goal.endDate
                     /\ goal.projectId # <<>> =>
                           Stored[i].projectId = goal.projectId[1]

----------------------------------------------------------------------------
(* Properties of the activities of an entry *)
IsAddActivityStep ==
    /\ result'.op = "handleAddActivity"
    /\ store' # store

(* C23: adding an activity to an entry leaves the stored duration,
   isRunning, startTime and endTime of that entry as they were just before
   the add, and the other entries untouched. *)
C23_AddActivityFrame ==
    [][IsAddActivityStep =>
          /\ Len(StoredNext) = Len(Stored)
          /\ \A i \in 1..Len(Stored) :
                /\ StoredNext[i].id = Stored[i].id
                /\ StoredNext[i].duration = Stored[i].duration
                /\ StoredNext[i].isRunning = Stored[i].isRunning
                /\ StoredNext[i].startTime = Stored[i].startTime
                /\ StoredNext[i].endTime = Stored[i].endTime]_vars

----------------------------------------------------------------------------
(* Properties of the useTimer instances *)

(* C24: every useTimer instance holds a running entry exactly when the
   store holds one, and then holds that entry; after a stopTimer call of an
   instance no entry is running in the store. *)
C24_HookAgreesWithStore ==
    /\ \A h \in Instances :
          /\ (hooks[h].runningEntry # <<>>) <=> (getRunningEntry(store) # <<>>)
          /\ hooks[h].runningEntry # <<>> =>
                hooks[h].runningEntry[1].id = getRunningEntry(store)[1].id
    /\ result.op = "useTimer.stopTimer" => getRunningEntry(store) = <<>>

----------------------------------------------------------------------------
(* Properties of one client on an unreliable network *)

(* C25: whenever the client has no call in flight, the table holds at most
   one running entry, also after calls during which a fetch, an update or
   an insert failed. *)
C25_OneRunningDespiteFailures ==
    pc[SoleClient] = "idle" => Cardinality(RunningRows) <= 1

----------------------------------------------------------------------------
(* Properties of the Pomodoro timer *)
OpenSessions ==
    {i \in 1..Len(sessions) :
        ~sessions[i].completed /\ ~sessions[i].interrupted}

(* C26: at most one stored session is open, that is neither completed nor
   interrupted, and an open session is the one the timer holds. *)
C26_AtMostOneOpenSession ==
    /\ Cardinality(OpenSessions) <= 1
    /\ \A i \in OpenSessions :
          /\ pomodoro.currentSession # <<>>
          /\ pomodoro.currentSession[1].id = sessions[i].id

(* C27: the countdown stays between 0 and the configured duration of the
   current timer type. *)
C27_TimeLeftWithinMax ==
    /\ 0 <= pomodoro.timeLeft
    /\ pomodoro.timeLeft <= maxTime(pomodoro)

----------------------------------------------------------------------------
(* Properties of the reminder check *)
IsCheckStep == result'.op = "getRemindersToNotify" /\ checks' # checks

(* C28: getRemindersToNotify returns no reminder that an earlier check has
   notified and passed to markAsNotified, none that is completed and none
   whose due time is more than 15 minutes ahead. *)
C28_NotifiedAtMostOnce ==
    [][\A i \in 1..Len(result'.ret) :
          IsCheckStep =>
             /\ result'.ret[i].id \notin marked
             /\ ~result'.ret[i].completed
             /\ now >= dueDateTime(result'.ret[i]) - NotifyBeforeMs]_vars

----------------------------------------------------------------------------
(* the most seconds any day of the heatmap has *)
BusiestSeconds ==
    LET all == {SecondsOfRecord(k) : k \in 1..Len(heatmap)}
    IN CHOOSE m \in all : \A x \in all : x <= m

(* C29: when the year has tracked time, every day that has as many hours as
   the busiest day of the year has level 4, however few those hours are. *)
C29_BusiestDayIsLevelFour ==
    (HeatmapMade /\ BusiestSeconds > 0) =>
        \A k \in 1..Len(heatmap) :
            SecondsOfRecord(k) = BusiestSeconds => heatmap[k].level = 4

----------------------------------------------------------------------------
(* a step that returns today's entries, or this week's *)
IsTodayStep == result'.op = "getTodayEntries" /\ now' = now /\ store' = store
IsWeekStep == result'.op = "getWeekEntries" /\ now' = now /\ store' = store

(* C30: an entry that getTodayEntries returns is not returned on the next
   day, an entry that getWeekEntries returns is not returned a week later,
   and getWeekEntries returns the entries of the window generateWeekReport
   uses for the same date. *)
C30_WindowsPartitionTime ==
    [][/\ IsTodayStep =>
             IdsIn(result'.ret)
                 \cap IdsIn(getTodayEntries(store, now + MsPerDay)) = {}
       /\ IsWeekStep =>
             /\ IdsIn(result'.ret)
                    \cap IdsIn(getWeekEntries(store, now + 7 * MsPerDay)) = {}
             /\ LET week == generateWeekReport(store, now)
                IN result'.ret = getEntriesByDateRange(store, week.startDate,
                                                      week.endDate)]_vars

====
